---- MODULE Spec2Model ----
(***************************************************************************)
(* cem-angular-generator: generateAngularWrappers (src/src/index.ts) as a  *)
(* state machine over the wrappers directory, and its manifest parser as   *)
(* operators over JSON values.                                             *)
(*                                                                         *)
(* A string is a sequence of one-character strings, so that split,         *)
(* startsWith, endsWith, toUpperCase and localeCompare are computed        *)
(* character by character.                                                 *)
(***************************************************************************)
EXTENDS Integers, Sequences, FiniteSets, TLC

VARIABLES
    manifestFile,   \* the text of the file at manifestPath (a JSON value, or malformed text)
    lib,            \* <wrappersRoot>/src/lib: file name -> content
    lit,            \* <wrappersRoot>/src/lib/lit: file name -> content
    root,           \* package.json, tsconfig.json, register file, public-api.ts, lit/index.ts
    dirs,           \* the directories that exist under wrappersRoot
    pc,             \* position of the running call: "idle", "write", "helpers"
    input,          \* the options of the call in progress (or of the last call) and
                    \* the manifest text at the time of the call
    components,     \* the parsed, sorted ComponentMeta list of the call
    idx,            \* index of the next component the write loop handles
    generatedFiles, \* the kept set of the call
    result,         \* what the last call returned or threw
    oplog,          \* the filesystem operations of the call, in order
    prev,           \* the state the previous call left behind
    runs,           \* number of calls started
    register,       \* the module state of the emitted register-stencil-components.ts
    instance,       \* an instance of an emitted wrapper class and its host element
    procs           \* two calls in progress at once on one wrappers directory

\* what exists only once generated code is loaded, or once a second call
\* runs beside the first
runtime == <<register, instance, procs>>

vars == <<manifestFile, lib, lit, root, dirs, pc, input, components, idx,
          generatedFiles, result, oplog, prev, runs, register, instance, procs>>

(***************************************************************************)
(* Characters and strings                                                  *)
(***************************************************************************)

Lower == <<"a","b","c","d","e","f","g","h","i","j","k","l","m",
           "n","o","p","q","r","s","t","u","v","w","x","y","z">>
Upper == <<"A","B","C","D","E","F","G","H","I","J","K","L","M",
           "N","O","P","Q","R","S","T","U","V","W","X","Y","Z">>
Digits == <<"0","1","2","3","4","5","6","7","8","9">>

\* The characters of the model in ascending UTF-16 code unit order.
AsciiOrder == <<" ", "#", "-", ".">> \o Digits \o Upper \o <<"_">> \o Lower

IndexOf(seq, c) == CHOOSE i \in 1..Len(seq) : seq[i] = c
Occurs(seq, c) == \E i \in 1..Len(seq) : seq[i] = c

IsLower(c) == Occurs(Lower, c)
IsUpper(c) == Occurs(Upper, c)
IsDigit(c) == Occurs(Digits, c)
IsLetter(c) == IsLower(c) \/ IsUpper(c)
IsSpace(c) == c = " "

\* String.prototype.toUpperCase on one character
ToUpperChar(c) == IF IsLower(c) THEN Upper[IndexOf(Lower, c)] ELSE c

CodeUnit(c) == IndexOf(AsciiOrder, c)

startsWith(name, prefix) ==
    /\ Len(prefix) <= Len(name)
    /\ SubSeq(name, 1, Len(prefix)) = prefix

endsWith(name, suffix) ==
    /\ Len(suffix) <= Len(name)
    /\ SubSeq(name, Len(name) - Len(suffix) + 1, Len(name)) = suffix

\* value.split(/[-\s]+/): the segments between maximal runs of dashes and white space
IsSeparator(c) == c = "-" \/ IsSpace(c)

RECURSIVE SplitFrom(_, _, _, _)
SplitFrom(value, i, current, inRun) ==
    IF i > Len(value) THEN <<current>>
    ELSE IF IsSeparator(value[i])
         THEN IF inRun THEN SplitFrom(value, i + 1, current, TRUE)
              ELSE <<current>> \o SplitFrom(value, i + 1, <<>>, TRUE)
         ELSE SplitFrom(value, i + 1, Append(current, value[i]), FALSE)

Split(value) == SplitFrom(value, 1, <<>>, FALSE)

RECURSIVE Join(_)
Join(segments) ==
    IF segments = <<>> THEN <<>> ELSE Head(segments) \o Join(Tail(segments))

Capitalize(segment) == <<ToUpperChar(segment[1])>> \o Tail(segment)

toPascalCase(value) ==
    LET segments == SelectSeq(Split(value), LAMBDA s : s # <<>>)
    IN  Join([i \in 1..Len(segments) |-> Capitalize(segments[i])])

\* value.replace(/-([a-zA-Z0-9])/g, upper).replace(/[^a-zA-Z0-9_]/g, "")
IsAlnum(c) == IsLetter(c) \/ IsDigit(c)

RECURSIVE CamelFrom(_, _)
CamelFrom(value, i) ==
    IF i > Len(value) THEN <<>>
    ELSE IF value[i] = "-" /\ i < Len(value) /\ IsAlnum(value[i + 1])
         THEN <<ToUpperChar(value[i + 1])>> \o CamelFrom(value, i + 2)
         ELSE <<value[i]>> \o CamelFrom(value, i + 1)

\* the identifier without the rule for a leading digit
toIdentifierUnprefixed(value) ==
    LET camel == SelectSeq(CamelFrom(value, 1), LAMBDA c : IsAlnum(c) \/ c = "_")
    IN  IF camel = <<>> THEN <<"e","v","e","n","t">> ELSE camel

toIdentifier(value) ==
    LET camel == SelectSeq(CamelFrom(value, 1), LAMBDA c : IsAlnum(c) \/ c = "_")
    IN  IF camel = <<>> THEN <<"e","v","e","n","t">>
        ELSE IF ~(IsLetter(camel[1]) \/ camel[1] = "_") THEN <<"_">> \o camel
        ELSE camel

(***************************************************************************)
(* String.prototype.localeCompare under the root collation: the primary    *)
(* weights order white space and punctuation before digits before letters  *)
(* and ignore case; strings with equal primary weights are ordered by case,*)
(* lower case first.                                                       *)
(***************************************************************************)
CollationOrder == <<" ", "_", "-", ".", "#">> \o Digits \o Lower

FoldCase(c) == IF IsUpper(c) THEN Lower[IndexOf(Upper, c)] ELSE c
PrimaryWeight(c) == IndexOf(CollationOrder, FoldCase(c))
TertiaryWeight(c) == IF IsUpper(c) THEN 1 ELSE 0

RECURSIVE CompareKeys(_, _)
CompareKeys(k1, k2) ==
    IF k1 = <<>> /\ k2 = <<>> THEN 0
    ELSE IF k1 = <<>> THEN -1
    ELSE IF k2 = <<>> THEN 1
    ELSE IF Head(k1) < Head(k2) THEN -1
    ELSE IF Head(k1) > Head(k2) THEN 1
    ELSE CompareKeys(Tail(k1), Tail(k2))

localeCompare(a, b) ==
    LET p == CompareKeys([i \in 1..Len(a) |-> PrimaryWeight(a[i])],
                         [i \in 1..Len(b) |-> PrimaryWeight(b[i])])
    IN  IF p # 0 THEN p
        ELSE CompareKeys([i \in 1..Len(a) |-> TertiaryWeight(a[i])],
                         [i \in 1..Len(b) |-> TertiaryWeight(b[i])])

\* the locale-neutral order: by UTF-16 code units
codeUnitCompare(a, b) ==
    CompareKeys([i \in 1..Len(a) |-> CodeUnit(a[i])],
                [i \in 1..Len(b) |-> CodeUnit(b[i])])

(***************************************************************************)
(* JSON values, as JSON.parse returns them.  A value is a record tagged    *)
(* with its type; an object carries a function from its keys to values.    *)
(***************************************************************************)
JNull == [t |-> "null"]
JUndefined == [t |-> "undefined"]
JStr(s) == [t |-> "string", v |-> s]
JNum(n) == [t |-> "number", v |-> n]
JBool(b) == [t |-> "boolean", v |-> b]
JArr(seq) == [t |-> "array", v |-> seq]
JObj(fields) == [t |-> "object", v |-> fields]

\* the text of a file that is not JSON
Malformed == [t |-> "malformed"]

IsArray(x) == x.t = "array"
IsString(x) == x.t = "string"
IsNullish(x) == x.t \in {"null", "undefined"}

\* x.key for a value that is not null or undefined
Get(x, key) ==
    IF x.t = "object" /\ key \in DOMAIN x.v THEN x.v[key] ELSE JUndefined

\* x?.key
GetOpt(x, key) == IF IsNullish(x) THEN JUndefined ELSE Get(x, key)

\* ToBoolean
Truthy(x) ==
    CASE x.t \in {"null", "undefined"} -> FALSE
      [] x.t = "string" -> x.v # <<>>
      [] x.t = "number" -> x.v # 0
      [] x.t = "boolean" -> x.v
      [] OTHER -> TRUE

sClass == <<"c","l","a","s","s">>
sField == <<"f","i","e","l","d">>
sProperty == <<"p","r","o","p","e","r","t","y">>
sMethod == <<"m","e","t","h","o","d">>
sAny == <<"a","n","y">>
sCustomEventAny == <<"C","u","s","t","o","m","E","v","e","n","t","<","a","n","y",">">>
sWc == <<"W","c">>
sComponent == <<"C","o","m","p","o","n","e","n","t">>
ComponentSuffix == <<".","c","o","m","p","o","n","e","n","t",".","t","s">>

TypeError == [ok |-> FALSE, error |-> "TypeError"]
SyntaxError == [ok |-> FALSE, error |-> "SyntaxError"]

\* a parse that recovers from malformed text with an empty document
JSONparseRecovering(text) ==
    [ok |-> TRUE, value |-> IF text.t = "malformed" THEN JNull ELSE text]

\* JSON.parse(readFileSync(manifestPath, "utf-8"))
JSONparse(text) ==
    IF text.t = "malformed" THEN SyntaxError ELSE [ok |-> TRUE, value |-> text]

(***************************************************************************)
(* The manifest parser of generateAngularWrappers                          *)
(***************************************************************************)

\* decl.members filtered and mapped
parseComponentMembers(members) ==
    IF ~IsArray(members) THEN <<>>
    ELSE LET kept == SelectSeq(members.v,
                 LAMBDA member :
                     /\ Truthy(member)
                     /\ LET kind == Get(member, "kind")
                        IN  /\ IsString(kind)
                            /\ kind.v \in {sField, sProperty})
         IN  [i \in 1..Len(kept) |->
                 LET member == kept[i]
                     text == GetOpt(Get(member, "type"), "text")
                     optional == Get(member, "optional")
                 IN  [name |-> Get(member, "name").v,
                      type |-> IF Truthy(text) THEN text.v ELSE sAny,
                      optional |-> IF IsNullish(optional) THEN TRUE ELSE optional.v,
                      description |-> Get(member, "description")]]

\* event.name of a null or undefined entry throws; so does toIdentifier of
\* a name that is no string (it has no replace method)
EventThrows(event) == IsNullish(event) \/ ~IsString(Get(event, "name"))

\* decl.events.map(...) when no entry throws
mapEvents(events) ==
    [i \in 1..Len(events) |->
        LET event == events[i]
            text == GetOpt(Get(event, "type"), "text")
        IN  [eventName |-> Get(event, "name").v,
             outputName |-> toIdentifier(Get(event, "name").v),
             type |-> IF Truthy(text) THEN text.v ELSE sCustomEventAny,
             description |-> Get(event, "description")]]

\* decl.events.map(...) without the Array.isArray guard
parseComponentEventsUnguarded(events) ==
    IF ~IsArray(events) THEN TypeError
    ELSE IF \E i \in 1..Len(events.v) : EventThrows(events.v[i]) THEN TypeError
    ELSE [ok |-> TRUE, events |-> mapEvents(events.v)]

\* Array.isArray(decl.events) ? decl.events.map(...) : []
parseComponentEvents(events) ==
    IF ~IsArray(events) THEN [ok |-> TRUE, events |-> <<>>]
    ELSE IF \E i \in 1..Len(events.v) : EventThrows(events.v[i]) THEN TypeError
    ELSE [ok |-> TRUE, events |-> mapEvents(events.v)]

\* if (!decl || decl.kind !== "class" || !decl.tagName) continue;
IsEligible(decl) ==
    /\ Truthy(decl)
    /\ Get(decl, "kind") = JStr(sClass)
    /\ Truthy(Get(decl, "tagName"))

\* one declaration that passed the filter: the ComponentMeta, or the TypeError
\* of toPascalCase (a tagName with no split method) or of the events mapping
parseComponentDeclaration(decl, modulePath, wrapperSelectorPrefix) ==
    LET tag == Get(decl, "tagName")
        events == parseComponentEvents(Get(decl, "events"))
    IN  IF ~IsString(tag) THEN TypeError
        ELSE IF ~events.ok THEN TypeError
        ELSE [ok |-> TRUE, component |->
                [tagName |-> tag.v,
                 selector |-> wrapperSelectorPrefix \o tag.v,
                 className |-> sWc \o toPascalCase(tag.v) \o sComponent,
                 fileName |-> wrapperSelectorPrefix \o tag.v \o ComponentSuffix,
                 sourceModule |-> modulePath,
                 description |-> Get(decl, "description"),
                 members |-> parseComponentMembers(Get(decl, "members")),
                 events |-> events.events]]

\* for (const decl of mod.declarations): the components pushed, in order
RECURSIVE parseDeclarations(_, _, _)
parseDeclarations(decls, modulePath, wrapperSelectorPrefix) ==
    IF decls = <<>> THEN [ok |-> TRUE, components |-> <<>>]
    ELSE IF ~IsEligible(Head(decls))
         THEN parseDeclarations(Tail(decls), modulePath, wrapperSelectorPrefix)
    ELSE LET first == parseComponentDeclaration(Head(decls), modulePath,
                                                wrapperSelectorPrefix)
             rest == parseDeclarations(Tail(decls), modulePath, wrapperSelectorPrefix)
         IN  IF ~first.ok THEN TypeError
             ELSE IF ~rest.ok THEN TypeError
             ELSE [ok |-> TRUE, components |-> <<first.component>> \o rest.components]

\* for (const mod of modules)
RECURSIVE parseModules(_, _)
parseModules(modules, wrapperSelectorPrefix) ==
    IF modules = <<>> THEN [ok |-> TRUE, components |-> <<>>]
    ELSE LET mod == Head(modules)
             declarations == GetOpt(mod, "declarations")
             first == IF ~IsArray(declarations)
                      THEN [ok |-> TRUE, components |-> <<>>]
                      ELSE parseDeclarations(declarations.v, Get(mod, "path"),
                                             wrapperSelectorPrefix)
             rest == parseModules(Tail(modules), wrapperSelectorPrefix)
         IN  IF ~first.ok THEN TypeError
             ELSE IF ~rest.ok THEN TypeError
             ELSE [ok |-> TRUE, components |-> first.components \o rest.components]

\* (a, b) => a.tagName.localeCompare(b.tagName)
compareComponents(a, b) == localeCompare(a.tagName, b.tagName)

\* components.sort(compare): a stable insertion of each element after the
\* elements that do not compare greater
RECURSIVE InsertSorted(_, _)
InsertSorted(sorted, x) ==
    IF sorted = <<>> THEN <<x>>
    ELSE IF compareComponents(Head(sorted), x) <= 0
         THEN <<Head(sorted)>> \o InsertSorted(Tail(sorted), x)
         ELSE <<x>> \o sorted

RECURSIVE SortFrom(_, _)
SortFrom(seq, i) ==
    IF i = 0 THEN <<>> ELSE InsertSorted(SortFrom(seq, i - 1), seq[i])

sortComponents(list) == SortFrom(list, Len(list))

\* lines 432-481: JSON.parse, the walk over modules and declarations, the sort
parseManifest(text, wrapperSelectorPrefix) ==
    LET parsed == JSONparse(text)
    IN  IF ~parsed.ok THEN SyntaxError
        ELSE LET modules == GetOpt(parsed.value, "modules")
                 walked == parseModules(IF IsArray(modules) THEN modules.v ELSE <<>>,
                                        wrapperSelectorPrefix)
             IN  IF ~walked.ok THEN TypeError
                 ELSE [ok |-> TRUE, components |-> sortComponents(walked.components)]

(***************************************************************************)
(* The files a call writes.  A file's content is the record of the parts   *)
(* the template interpolates, in the order of the template.                *)
(***************************************************************************)

\* Array.from(set).sort().join(", ") is determined by the set
angularImportsInline(hasInputs, hasEvents) ==
    {"AfterViewInit", "ChangeDetectionStrategy", "Component",
     "CUSTOM_ELEMENTS_SCHEMA", "ElementRef", "ViewChild"}
    \cup (IF hasInputs THEN {"Input", "OnChanges", "SimpleChanges"} ELSE {})
    \cup (IF hasEvents THEN {"EventEmitter", "NgZone", "OnDestroy", "Output"} ELSE {})

getAngularImports(hasInputs, hasEvents, standalone) ==
    {"AfterViewInit", "ChangeDetectionStrategy", "Component", "ElementRef", "ViewChild"}
    \cup (IF standalone THEN {"CUSTOM_ELEMENTS_SCHEMA"} ELSE {})
    \cup (IF hasInputs THEN {"Input", "OnChanges", "SimpleChanges"} ELSE {})
    \cup (IF hasEvents THEN {"EventEmitter", "NgZone", "OnDestroy", "Output"} ELSE {})

getLifecycleInterfaces(hasInputs, hasEvents) ==
    <<"AfterViewInit">>
    \o (IF hasInputs THEN <<"OnChanges">> ELSE <<>>)
    \o (IF hasEvents THEN <<"OnDestroy">> ELSE <<>>)

\* every declaration marked optional
generateInputLinesOptional(members) ==
    [i \in 1..Len(members) |->
        [name |-> members[i].name,
         mark |-> "?:",
         type |-> members[i].type,
         doc |-> IF Truthy(members[i].description)
                 THEN members[i].description ELSE JUndefined]]

generateInputLines(members) ==
    [i \in 1..Len(members) |->
        [name |-> members[i].name,
         mark |-> IF members[i].optional THEN "?:" ELSE ":",
         type |-> members[i].type,
         doc |-> IF Truthy(members[i].description)
                 THEN members[i].description ELSE JUndefined]]

\* every emitter aliased to the event name
generateEventLinesAliased(events) ==
    [i \in 1..Len(events) |->
        [alias |-> <<events[i].eventName>>,
         outputName |-> events[i].outputName,
         type |-> events[i].type,
         doc |-> IF Truthy(events[i].description)
                 THEN events[i].description ELSE JUndefined]]

generateEventLines(events) ==
    [i \in 1..Len(events) |->
        [alias |-> IF events[i].eventName # events[i].outputName
                   THEN <<events[i].eventName>> ELSE <<>>,
         outputName |-> events[i].outputName,
         type |-> events[i].type,
         doc |-> IF Truthy(events[i].description)
                 THEN events[i].description ELSE JUndefined]]

\* every hook and helper emitted whatever the component has
classMethodsUnconditional(hasInputs, hasEvents) ==
    {"ngAfterViewInit", "ngOnChanges", "syncInputs", "constructor", "ngOnDestroy",
     "setupEventListeners", "addEventListener"}

\* the hooks and helpers the class body holds
classMethods(hasInputs, hasEvents) ==
    {"ngAfterViewInit"}
    \cup (IF hasInputs THEN {"ngOnChanges", "syncInputs"} ELSE {})
    \cup (IF hasEvents
          THEN {"constructor", "ngOnDestroy", "setupEventListeners", "addEventListener"}
          ELSE {})

\* (element as any).<name> = this.<name>; one line per member
assignmentLines(members) == [i \in 1..Len(members) |-> members[i].name]

\* this.addEventListener('<eventName>', (event) => this.<outputName>.emit(event));
\* one line per event
eventBindingLines(events) ==
    [i \in 1..Len(events) |->
        [eventName |-> events[i].eventName, outputName |-> events[i].outputName]]

\* the statements of ngAfterViewInit, in order
afterViewInitBody(hasInputs, hasEvents) ==
    <<"captureElement">>
    \o (IF hasEvents THEN <<"setupEventListeners">> ELSE <<>>)
    \o (IF hasInputs THEN <<"syncInputs">> ELSE <<>>)

generateComponentDecoratorMetadata(component, standalone, hasInputs) ==
    [selector |-> component.selector,
     template |-> component.tagName,
     standalone |-> standalone,
     schemas |-> standalone,
     inputs |-> IF hasInputs /\ ~standalone
                THEN <<[i \in 1..Len(component.members) |-> component.members[i].name]>>
                ELSE <<>>]

\* typeText.match(/\b[A-Z][A-Za-z0-9_]+\b/g): the maximal runs of word
\* characters that start with an upper-case letter and hold two characters
\* or more
IsWordChar(c) == IsAlnum(c) \/ c = "_"

RECURSIVE WordsFrom(_, _, _)
WordsFrom(typeText, i, current) ==
    IF i > Len(typeText) THEN (IF current = <<>> THEN <<>> ELSE <<current>>)
    ELSE IF IsWordChar(typeText[i])
         THEN WordsFrom(typeText, i + 1, Append(current, typeText[i]))
         ELSE (IF current = <<>> THEN <<>> ELSE <<current>>)
                  \o WordsFrom(typeText, i + 1, <<>>)

\* the head token only, as match without the g flag returns it
matchTypeTokensHead(typeText) ==
    LET all == SelectSeq(WordsFrom(typeText, 1, <<>>),
                         LAMBDA w : Len(w) >= 2 /\ IsUpper(w[1]))
    IN  IF all = <<>> THEN <<>> ELSE <<Head(all)>>

matchTypeTokens(typeText) ==
    SelectSeq(WordsFrom(typeText, 1, <<>>), LAMBDA w : Len(w) >= 2 /\ IsUpper(w[1]))

BUILT_IN_TYPE_TOKENS ==
    {<<"A","r","r","a","y">>,
     <<"B","o","o","l","e","a","n">>,
     <<"D","a","t","e">>,
     <<"M","a","p">>,
     <<"N","u","m","b","e","r">>,
     <<"O","b","j","e","c","t">>,
     <<"P","r","o","m","i","s","e">>,
     <<"R","e","a","d","o","n","l","y","A","r","r","a","y">>,
     <<"R","e","c","o","r","d">>,
     <<"S","e","t">>,
     <<"S","t","r","i","n","g">>,
     <<"F","u","n","c","t","i","o","n">>,
     <<"R","e","g","E","x","p">>,
     <<"E","r","r","o","r">>,
     <<"S","y","m","b","o","l">>,
     <<"B","i","g","I","n","t">>,
     <<"E","v","e","n","t">>,
     <<"C","u","s","t","o","m","E","v","e","n","t">>,
     <<"K","e","y","b","o","a","r","d","E","v","e","n","t">>,
     <<"M","o","u","s","e","E","v","e","n","t">>,
     <<"T","o","u","c","h","E","v","e","n","t">>,
     <<"W","h","e","e","l","E","v","e","n","t">>,
     <<"P","o","i","n","t","e","r","E","v","e","n","t">>,
     <<"F","o","c","u","s","E","v","e","n","t">>,
     <<"I","n","p","u","t","E","v","e","n","t">>,
     <<"D","r","a","g","E","v","e","n","t">>,
     <<"C","l","i","p","b","o","a","r","d","E","v","e","n","t">>,
     <<"A","n","i","m","a","t","i","o","n","E","v","e","n","t">>,
     <<"T","r","a","n","s","i","t","i","o","n","E","v","e","n","t">>,
     <<"U","I","E","v","e","n","t">>,
     <<"P","r","o","g","r","e","s","s","E","v","e","n","t">>,
     <<"M","e","s","s","a","g","e","E","v","e","n","t">>,
     <<"S","t","o","r","a","g","e","E","v","e","n","t">>,
     <<"P","o","p","S","t","a","t","e","E","v","e","n","t">>,
     <<"H","a","s","h","C","h","a","n","g","e","E","v","e","n","t">>,
     <<"B","e","f","o","r","e","U","n","l","o","a","d","E","v","e","n","t">>,
     <<"E","r","r","o","r","E","v","e","n","t">>,
     <<"N","o","d","e">>,
     <<"E","l","e","m","e","n","t">>,
     <<"D","o","c","u","m","e","n","t">>,
     <<"D","o","c","u","m","e","n","t","F","r","a","g","m","e","n","t">>,
     <<"W","i","n","d","o","w">>,
     <<"S","h","a","d","o","w","R","o","o","t">>,
     <<"T","e","x","t">>,
     <<"C","o","m","m","e","n","t">>,
     <<"C","D","A","T","A","S","e","c","t","i","o","n">>,
     <<"P","r","o","c","e","s","s","i","n","g","I","n","s","t","r","u","c","t","i","o","n">>,
     <<"D","o","c","u","m","e","n","t","T","y","p","e">>,
     <<"A","t","t","r">>,
     <<"H","T","M","L","E","l","e","m","e","n","t">>,
     <<"H","T","M","L","A","n","c","h","o","r","E","l","e","m","e","n","t">>,
     <<"H","T","M","L","A","r","e","a","E","l","e","m","e","n","t">>,
     <<"H","T","M","L","A","u","d","i","o","E","l","e","m","e","n","t">>,
     <<"H","T","M","L","B","a","s","e","E","l","e","m","e","n","t">>,
     <<"H","T","M","L","B","o","d","y","E","l","e","m","e","n","t">>,
     <<"H","T","M","L","B","R","E","l","e","m","e","n","t">>,
     <<"H","T","M","L","B","u","t","t","o","n","E","l","e","m","e","n","t">>,
     <<"H","T","M","L","C","a","n","v","a","s","E","l","e","m","e","n","t">>,
     <<"H","T","M","L","D","a","t","a","E","l","e","m","e","n","t">>,
     <<"H","T","M","L","D","a","t","a","L","i","s","t","E","l","e","m","e","n","t">>,
     <<"H","T","M","L","D","e","t","a","i","l","s","E","l","e","m","e","n","t">>,
     <<"H","T","M","L","D","i","a","l","o","g","E","l","e","m","e","n","t">>,
     <<"H","T","M","L","D","i","v","E","l","e","m","e","n","t">>,
     <<"H","T","M","L","D","L","i","s","t","E","l","e","m","e","n","t">>,
     <<"H","T","M","L","E","m","b","e","d","E","l","e","m","e","n","t">>,
     <<"H","T","M","L","F","i","e","l","d","S","e","t","E","l","e","m","e","n","t">>,
     <<"H","T","M","L","F","o","r","m","E","l","e","m","e","n","t">>,
     <<"H","T","M","L","H","e","a","d","E","l","e","m","e","n","t">>,
     <<"H","T","M","L","H","e","a","d","i","n","g","E","l","e","m","e","n","t">>,
     <<"H","T","M","L","H","R","E","l","e","m","e","n","t">>,
     <<"H","T","M","L","H","t","m","l","E","l","e","m","e","n","t">>,
     <<"H","T","M","L","I","F","r","a","m","e","E","l","e","m","e","n","t">>,
     <<"H","T","M","L","I","m","a","g","e","E","l","e","m","e","n","t">>,
     <<"H","T","M","L","I","n","p","u","t","E","l","e","m","e","n","t">>,
     <<"H","T","M","L","L","a","b","e","l","E","l","e","m","e","n","t">>,
     <<"H","T","M","L","L","e","g","e","n","d","E","l","e","m","e","n","t">>,
     <<"H","T","M","L","L","I","E","l","e","m","e","n","t">>,
     <<"H","T","M","L","L","i","n","k","E","l","e","m","e","n","t">>,
     <<"H","T","M","L","M","a","p","E","l","e","m","e","n","t">>,
     <<"H","T","M","L","M","e","d","i","a","E","l","e","m","e","n","t">>,
     <<"H","T","M","L","M","e","n","u","E","l","e","m","e","n","t">>,
     <<"H","T","M","L","M","e","t","a","E","l","e","m","e","n","t">>,
     <<"H","T","M","L","M","e","t","e","r","E","l","e","m","e","n","t">>,
     <<"H","T","M","L","M","o","d","E","l","e","m","e","n","t">>,
     <<"H","T","M","L","O","b","j","e","c","t","E","l","e","m","e","n","t">>,
     <<"H","T","M","L","O","L","i","s","t","E","l","e","m","e","n","t">>,
     <<"H","T","M","L","O","p","t","G","r","o","u","p","E","l","e","m","e","n","t">>,
     <<"H","T","M","L","O","p","t","i","o","n","E","l","e","m","e","n","t">>,
     <<"H","T","M","L","O","u","t","p","u","t","E","l","e","m","e","n","t">>,
     <<"H","T","M","L","P","a","r","a","g","r","a","p","h","E","l","e","m","e","n","t">>,
     <<"H","T","M","L","P","i","c","t","u","r","e","E","l","e","m","e","n","t">>,
     <<"H","T","M","L","P","r","e","E","l","e","m","e","n","t">>,
     <<"H","T","M","L","P","r","o","g","r","e","s","s","E","l","e","m","e","n","t">>,
     <<"H","T","M","L","Q","u","o","t","e","E","l","e","m","e","n","t">>,
     <<"H","T","M","L","S","c","r","i","p","t","E","l","e","m","e","n","t">>,
     <<"H","T","M","L","S","e","l","e","c","t","E","l","e","m","e","n","t">>,
     <<"H","T","M","L","S","l","o","t","E","l","e","m","e","n","t">>,
     <<"H","T","M","L","S","o","u","r","c","e","E","l","e","m","e","n","t">>,
     <<"H","T","M","L","S","p","a","n","E","l","e","m","e","n","t">>,
     <<"H","T","M","L","S","t","y","l","e","E","l","e","m","e","n","t">>,
     <<"H","T","M","L","T","a","b","l","e","E","l","e","m","e","n","t">>,
     <<"H","T","M","L","T","a","b","l","e","C","a","p","t","i","o","n","E","l","e","m","e","n","t">>,
     <<"H","T","M","L","T","a","b","l","e","C","e","l","l","E","l","e","m","e","n","t">>,
     <<"H","T","M","L","T","a","b","l","e","C","o","l","E","l","e","m","e","n","t">>,
     <<"H","T","M","L","T","a","b","l","e","R","o","w","E","l","e","m","e","n","t">>,
     <<"H","T","M","L","T","a","b","l","e","S","e","c","t","i","o","n","E","l","e","m","e","n","t">>,
     <<"H","T","M","L","T","e","m","p","l","a","t","e","E","l","e","m","e","n","t">>,
     <<"H","T","M","L","T","e","x","t","A","r","e","a","E","l","e","m","e","n","t">>,
     <<"H","T","M","L","T","i","m","e","E","l","e","m","e","n","t">>,
     <<"H","T","M","L","T","i","t","l","e","E","l","e","m","e","n","t">>,
     <<"H","T","M","L","T","r","a","c","k","E","l","e","m","e","n","t">>,
     <<"H","T","M","L","U","L","i","s","t","E","l","e","m","e","n","t">>,
     <<"H","T","M","L","V","i","d","e","o","E","l","e","m","e","n","t">>,
     <<"H","T","M","L","U","n","k","n","o","w","n","E","l","e","m","e","n","t">>,
     <<"S","V","G","E","l","e","m","e","n","t">>,
     <<"S","V","G","S","V","G","E","l","e","m","e","n","t">>,
     <<"S","V","G","G","r","a","p","h","i","c","s","E","l","e","m","e","n","t">>,
     <<"S","V","G","A","n","i","m","a","t","i","o","n","E","l","e","m","e","n","t">>,
     <<"S","V","G","G","e","o","m","e","t","r","y","E","l","e","m","e","n","t">>,
     <<"S","V","G","G","r","a","d","i","e","n","t","E","l","e","m","e","n","t">>,
     <<"S","V","G","C","o","m","p","o","n","e","n","t","T","r","a","n","s","f","e","r","F","u","n","c","t","i","o","n","E","l","e","m","e","n","t">>,
     <<"S","V","G","T","e","x","t","C","o","n","t","e","n","t","E","l","e","m","e","n","t">>,
     <<"S","V","G","T","e","x","t","P","o","s","i","t","i","o","n","i","n","g","E","l","e","m","e","n","t">>,
     <<"N","o","d","e","L","i","s","t">>,
     <<"H","T","M","L","C","o","l","l","e","c","t","i","o","n">>,
     <<"D","O","M","T","o","k","e","n","L","i","s","t">>,
     <<"N","a","m","e","d","N","o","d","e","M","a","p">>,
     <<"C","S","S","S","t","y","l","e","D","e","c","l","a","r","a","t","i","o","n">>,
     <<"S","t","y","l","e","S","h","e","e","t">>,
     <<"C","S","S","S","t","y","l","e","S","h","e","e","t">>,
     <<"M","e","d","i","a","L","i","s","t">>,
     <<"D","O","M","R","e","c","t">>,
     <<"D","O","M","R","e","c","t","R","e","a","d","O","n","l","y">>,
     <<"D","O","M","M","a","t","r","i","x">>,
     <<"D","O","M","M","a","t","r","i","x","R","e","a","d","O","n","l","y">>,
     <<"D","O","M","P","o","i","n","t">>,
     <<"D","O","M","P","o","i","n","t","R","e","a","d","O","n","l","y">>,
     <<"D","O","M","S","t","r","i","n","g","M","a","p">>,
     <<"D","O","M","S","t","r","i","n","g","L","i","s","t">>,
     <<"F","i","l","e","L","i","s","t">>,
     <<"F","i","l","e">>,
     <<"B","l","o","b">>,
     <<"F","o","r","m","D","a","t","a">>,
     <<"H","e","a","d","e","r","s">>,
     <<"R","e","q","u","e","s","t">>,
     <<"R","e","s","p","o","n","s","e">>,
     <<"A","b","o","r","t","C","o","n","t","r","o","l","l","e","r">>,
     <<"A","b","o","r","t","S","i","g","n","a","l">>,
     <<"U","R","L">>,
     <<"U","R","L","S","e","a","r","c","h","P","a","r","a","m","s">>,
     <<"L","o","c","a","t","i","o","n">>,
     <<"H","i","s","t","o","r","y">>,
     <<"N","a","v","i","g","a","t","o","r">>,
     <<"S","c","r","e","e","n">>,
     <<"C","o","n","s","o","l","e">>,
     <<"P","e","r","f","o","r","m","a","n","c","e">>,
     <<"P","e","r","f","o","r","m","a","n","c","e","E","n","t","r","y">>,
     <<"S","t","o","r","a","g","e">>,
     <<"M","u","t","a","t","i","o","n","O","b","s","e","r","v","e","r">>,
     <<"M","u","t","a","t","i","o","n","R","e","c","o","r","d">>,
     <<"I","n","t","e","r","s","e","c","t","i","o","n","O","b","s","e","r","v","e","r">>,
     <<"I","n","t","e","r","s","e","c","t","i","o","n","O","b","s","e","r","v","e","r","E","n","t","r","y">>,
     <<"R","e","s","i","z","e","O","b","s","e","r","v","e","r">>,
     <<"R","e","s","i","z","e","O","b","s","e","r","v","e","r","E","n","t","r","y">>,
     <<"M","e","d","i","a","Q","u","e","r","y","L","i","s","t">>,
     <<"S","e","l","e","c","t","i","o","n">>,
     <<"R","a","n","g","e">>,
     <<"C","l","i","p","b","o","a","r","d","I","t","e","m">>,
     <<"D","a","t","a","T","r","a","n","s","f","e","r">>,
     <<"D","a","t","a","T","r","a","n","s","f","e","r","I","t","e","m">>,
     <<"D","a","t","a","T","r","a","n","s","f","e","r","I","t","e","m","L","i","s","t">>,
     <<"A","n","i","m","a","t","i","o","n">>,
     <<"A","n","i","m","a","t","i","o","n","E","f","f","e","c","t">>,
     <<"K","e","y","f","r","a","m","e","E","f","f","e","c","t">>,
     <<"C","S","S","A","n","i","m","a","t","i","o","n">>,
     <<"C","S","S","T","r","a","n","s","i","t","i","o","n">>,
     <<"W","e","b","S","o","c","k","e","t">>,
     <<"W","o","r","k","e","r">>,
     <<"S","h","a","r","e","d","W","o","r","k","e","r">>,
     <<"M","e","s","s","a","g","e","P","o","r","t">>,
     <<"M","e","s","s","a","g","e","C","h","a","n","n","e","l">>,
     <<"B","r","o","a","d","c","a","s","t","C","h","a","n","n","e","l">>,
     <<"E","v","e","n","t","S","o","u","r","c","e">>,
     <<"E","v","e","n","t","T","a","r","g","e","t">>,
     <<"X","M","L","H","t","t","p","R","e","q","u","e","s","t">>,
     <<"C","r","y","p","t","o">>,
     <<"S","u","b","t","l","e","C","r","y","p","t","o">>,
     <<"C","r","y","p","t","o","K","e","y">>}

\* addTypeTokens: the matches that are not built in
addTypeTokens(typeText) ==
    {w \in {matchTypeTokens(typeText)[i] : i \in 1..Len(matchTypeTokens(typeText))} :
        w \notin BUILT_IN_TYPE_TOKENS}

collectTypeTokens(component) ==
    UNION {addTypeTokens(component.members[i].type) : i \in 1..Len(component.members)}
    \cup UNION {addTypeTokens(component.events[i].type) : i \in 1..Len(component.events)}

\* Array.from(typeTokens).sort(): ascending UTF-16 code unit order
RECURSIVE sortTokens(_)
sortTokens(tokens) ==
    IF tokens = {} THEN <<>>
    ELSE LET least == CHOOSE t \in tokens :
                          \A u \in tokens : codeUnitCompare(t, u) <= 0
         IN  <<least>> \o sortTokens(tokens \ {least})

\* the import type line: absent when there is no token
typeImportLine(component) ==
    LET typeTokens == collectTypeTokens(component)
    IN  IF typeTokens = {} THEN <<>>
        ELSE <<[tokens |-> sortTokens(typeTokens), from |-> "web-components"]>>

\* the comment block at the head of the file
headerComment(component) ==
    <<[line |-> "Auto-generated Angular wrapper for", tag |-> component.tagName],
      [line |-> "Source:",
       path |-> IF IsNullish(component.sourceModule)
                THEN JStr(<<"n","/","a">>) ELSE component.sourceModule],
      [line |-> "DO NOT EDIT - generated by the Custom Elements -> Angular generator."]>>

\* the template of the default output (the loop body of generateAngularWrappers)
inlineComponentContent(component, standalone) ==
    LET hasInputs == Len(component.members) > 0
        hasEvents == Len(component.events) > 0
    IN  [header |-> headerComment(component),
         imports |-> angularImportsInline(hasInputs, hasEvents),
         typeImport |-> typeImportLine(component),
         decorator |-> [selector |-> component.selector,
                        template |-> component.tagName,
                        standalone |-> standalone,
                        schemas |-> TRUE,
                        inputs |-> <<>>],
         className |-> component.className,
         implements |-> getLifecycleInterfaces(hasInputs, hasEvents),
         inputLines |-> generateInputLines(component.members),
         eventLines |-> generateEventLines(component.events),
         methods |-> classMethods(hasInputs, hasEvents),
         afterViewInit |-> afterViewInitBody(hasInputs, hasEvents),
         assignments |-> assignmentLines(component.members),
         eventBindings |-> eventBindingLines(component.events)]

\* the template of the augmented output
generateComponentFileContent(component, standalone) ==
    LET hasInputs == Len(component.members) > 0
        hasEvents == Len(component.events) > 0
    IN  [header |-> headerComment(component),
         imports |-> getAngularImports(hasInputs, hasEvents, standalone),
         typeImport |-> typeImportLine(component),
         decorator |-> generateComponentDecoratorMetadata(component, standalone, hasInputs),
         className |-> component.className,
         implements |-> getLifecycleInterfaces(hasInputs, hasEvents),
         inputLines |-> generateInputLines(component.members),
         eventLines |-> generateEventLines(component.events),
         methods |-> classMethods(hasInputs, hasEvents),
         afterViewInit |-> afterViewInitBody(hasInputs, hasEvents),
         assignments |-> assignmentLines(component.members),
         eventBindings |-> eventBindingLines(component.events)]

\* String.prototype.replace(pattern, "") with a string pattern: the first occurrence
RECURSIVE RemoveFirst(_, _)
RemoveFirst(s, pattern) ==
    IF Len(s) < Len(pattern) THEN s
    ELSE IF startsWith(s, pattern) THEN SubSeq(s, Len(pattern) + 1, Len(s))
    ELSE <<Head(s)>> \o RemoveFirst(Tail(s), pattern)

sDotTs == <<".","t","s">>

\* public-api.ts of the default output
publicApiContent(list) ==
    [imports |-> [i \in 1..Len(list) |->
                    [className |-> list[i].className,
                     from |-> RemoveFirst(list[i].fileName, sDotTs)]],
     exports |-> [i \in 1..Len(list) |->
                    [className |-> list[i].className,
                     from |-> RemoveFirst(list[i].fileName, sDotTs)]],
     helper |-> "registerStencilComponents",
     wrapperComponents |-> [i \in 1..Len(list) |-> list[i].className]]

\* lit/index.ts of the augmented output
generateLitIndexContent(list) ==
    [imports |-> [i \in 1..Len(list) |->
                    [className |-> list[i].className,
                     from |-> RemoveFirst(list[i].fileName, sDotTs)]],
     exports |-> [i \in 1..Len(list) |->
                    [className |-> list[i].className,
                     from |-> RemoveFirst(list[i].fileName, sDotTs)]],
     directives |-> [i \in 1..Len(list) |-> list[i].className]]

\* public-api.ts of the augmented output
generatePublicApiContent == [reexport |-> "./lib/lit"]

registerContent ==
    [loader |-> "web-components/loader", latch |-> "componentsDefined",
     register |-> "registerStencilComponents"]

\* angularPackageName = "@experiment/angular-wrappers" in the destructuring
\* of the options
PackageName(o) ==
    IF "angularPackageName" \in DOMAIN o THEN o.angularPackageName
    ELSE "@experiment/angular-wrappers"

packageJsonInline(o) ==
    [name |-> PackageName(o),
     description |-> "Auto-generated Angular bindings for the Stencil + Lit web components."]
packageJsonAugmented(o) ==
    [name |-> PackageName(o),
     description |-> "Angular bindings for Stencil and Lit web components."]
tsconfigInline == [module |-> "nodenext"]
tsconfigAugmented == [module |-> "ES2022"]

sIndexTs == <<"i","n","d","e","x",".","t","s">>

\* a write that leaves a file that is there as it is
WriteToAbsentOnly(dir, name, content) ==
    [n \in DOMAIN dir \cup {name} |-> IF n \in DOMAIN dir THEN dir[n] ELSE content]

\* writeFileSync(join(dir, name), content)
WriteTo(dir, name, content) ==
    [n \in DOMAIN dir \cup {name} |-> IF n = name THEN content ELSE dir[n]]

\* if (!existsSync(path)) writeFileSync(path, content)
WriteIfAbsent(dir, name, content) ==
    IF name \in DOMAIN dir THEN dir ELSE WriteTo(dir, name, content)

\* an unlinkSync that removes nothing
UnlinkNothing(dir, names) == dir

\* unlinkSync of each name
Unlink(dir, names) == [n \in DOMAIN dir \ names |-> dir[n]]

(***************************************************************************)
(* Inputs: options, manifests and what the wrappers directory may hold     *)
(* before the first call                                                   *)
(***************************************************************************)
MaxRuns == 2
MaxDecls == 2

pWc == <<"w","c","-">>
pUi == <<"u","i","-">>
sManifestPath == <<"c","e",".","j","s","o","n">>

Options(path, prefix, augment, standalone) ==
    [manifestPath |-> path, wrapperSelectorPrefix |-> prefix,
     augmentAngularOutput |-> augment, standalone |-> standalone]

sAcme == "@acme/wrappers"

\* the calls of the regeneration runs
RunOptions ==
    {Options(JStr(<<>>), pWc, FALSE, TRUE), Options(JUndefined, pWc, FALSE, TRUE)}
    \cup {Options(JStr(sManifestPath), p, a, TRUE) : p \in {pWc, pUi}, a \in BOOLEAN}
    \cup {Options(JStr(sManifestPath), pWc, a, FALSE) : a \in BOOLEAN}
    \cup {Options(JStr(sManifestPath), pWc, a, TRUE) @@ [angularPackageName |-> sAcme] :
             a \in BOOLEAN}

tA == <<"x","-","a">>
tB == <<"x","-","b">>
tC == <<"x","-","c">>
sString == <<"s","t","r","i","n","g">>
sLabel == <<"l","a","b","e","l">>
sClick == <<"o","n","-","c","l","i","c","k">>
sFunction == <<"f","u","n","c","t","i","o","n">>

Member(kind, name) == JObj([kind |-> JStr(kind), name |-> JStr(name)])
RequiredMember(name, text) ==
    JObj([kind |-> JStr(sField), name |-> JStr(name),
          type |-> JObj([text |-> JStr(text)]), optional |-> JBool(FALSE)])
Event(name) == JObj([name |-> JStr(name)])

ClassDecl(tag, members, events) ==
    JObj([kind |-> JStr(sClass), tagName |-> JStr(tag),
          members |-> members, events |-> events])
Module(path, decls) == JObj([path |-> JStr(path), declarations |-> JArr(decls)])
Manifest(modules) == JObj([schemaVersion |-> JStr(<<"1">>), modules |-> JArr(modules)])

dA == ClassDecl(tA, JArr(<<RequiredMember(sLabel, sString)>>), JArr(<<Event(sClick)>>))
dB == ClassDecl(tB, JArr(<<>>), JArr(<<>>))
dC == ClassDecl(tC, JArr(<<Member(sField, sLabel)>>), JArr(<<>>))

mEmpty == Manifest(<<>>)
mA == Manifest(<<Module(<<"a">>, <<dA>>)>>)
mAB == Manifest(<<Module(<<"a">>, <<dB, dA>>)>>)
mABC == Manifest(<<Module(<<"c">>, <<dC, dA>>), Module(<<"b">>, <<dB>>)>>)

RunManifests == {Malformed, mEmpty, mA, mAB, mABC}

\* files that are in the directory before the first call
fNotes == <<"n","o","t","e","s">>
fCustom == <<"m","y">> \o ComponentSuffix
fStale == pWc \o <<"o","l","d">> \o ComponentSuffix
ForeignContent == [foreign |-> TRUE]
Populated == [n \in {fNotes, fCustom, fStale} |-> ForeignContent]
EmptyDir == [n \in {} |-> ForeignContent]

NoResult == [status |-> "none"]
NoInput == [options |-> Options(JUndefined, <<>>, FALSE, TRUE), manifest |-> JUndefined]

\* no generated code loaded, no second call
NotLoaded == [loaded |-> FALSE]
NothingLoaded == register = NotLoaded /\ instance = NotLoaded /\ procs = NotLoaded

Snapshot ==
    [valid |-> runs > 0, lib |-> lib, lit |-> lit, root |-> root, dirs |-> dirs,
     input |-> input, result |-> result, oplog |-> oplog]

Init ==
    /\ manifestFile \in RunManifests
    /\ \/ lib = EmptyDir /\ lit = EmptyDir /\ dirs = {}
       \/ lib = Populated /\ lit = Populated /\ dirs = {"lib", "lit"}
    /\ root = EmptyDir
    /\ pc = "idle"
    /\ input = NoInput
    /\ components = <<>>
    /\ idx = 1
    /\ generatedFiles = {}
    /\ result = NoResult
    /\ oplog = <<>>
    /\ runs = 0
    /\ prev = [valid |-> FALSE]
    /\ NothingLoaded

(***************************************************************************)
(* generateAngularWrappers, one step per part of the call                  *)
(***************************************************************************)
sRequiresManifestPath == <<"generateAngularWrappers", "requires", "a", "manifestPath", ".">>

Thrown(name, message) == [status |-> "error", error |-> name, message |-> message]

\* the manifestPath guard left out
MissingManifestPathUnchecked(o) == FALSE

\* if (!manifestPath) throw: the guard that precedes every filesystem call
MissingManifestPath(o) == ~Truthy(o.manifestPath)

\* the directory the component files go to
OutputDir(o) == IF o.augmentAngularOutput THEN "lit" ELSE "lib"

\* mkdirSync(wrappersLibDir), and in the augmented output mkdirSync(litDir)
DirsCreated(o) == IF o.augmentAngularOutput THEN {"lib", "lit"} ELSE {"lib"}

\* package.json and tsconfig.json, each written only when absent
ScaffoldFiles(o, files) ==
    IF o.augmentAngularOutput
    THEN WriteIfAbsent(WriteIfAbsent(files, "package.json", packageJsonAugmented(o)),
                       "tsconfig.json", tsconfigAugmented)
    ELSE WriteIfAbsent(WriteIfAbsent(files, "package.json", packageJsonInline(o)),
                       "tsconfig.json", tsconfigInline)

\* the call up to the write loop: the manifestPath guard, mkdirSync, the
\* manifest read and parse, the scaffold files
Begin(o) ==
    /\ pc = "idle"
    /\ runs < MaxRuns
    /\ runs' = runs + 1
    /\ prev' = Snapshot
    /\ input' = [options |-> o, manifest |-> manifestFile]
    /\ generatedFiles' = {}
    /\ idx' = 1
    /\ UNCHANGED <<manifestFile, lib, lit>>
    /\ UNCHANGED runtime
    /\ IF MissingManifestPath(o)
       THEN /\ result' = Thrown("Error", sRequiresManifestPath)
            /\ oplog' = <<>>
            /\ components' = <<>>
            /\ UNCHANGED <<root, dirs, pc>>
       ELSE LET parsed == parseManifest(manifestFile, o.wrapperSelectorPrefix)
            IN  IF ~parsed.ok
                THEN /\ result' = Thrown(parsed.error, <<>>)
                     /\ dirs' = dirs \cup {"lib"}
                     /\ oplog' = <<[op |-> "mkdir", dir |-> "lib"],
                                   [op |-> "read", file |-> "manifest"]>>
                     /\ components' = <<>>
                     /\ UNCHANGED <<root, pc>>
                ELSE /\ result' = NoResult
                     /\ components' = parsed.components
                     /\ dirs' = dirs \cup DirsCreated(o)
                     /\ root' = ScaffoldFiles(o, root)
                     /\ oplog' = <<[op |-> "mkdir", dir |-> "lib"],
                                   [op |-> "read", file |-> "manifest"]>>
                                 \o (IF o.augmentAngularOutput
                                     THEN <<[op |-> "mkdir", dir |-> "lit"]>> ELSE <<>>)
                                 \o <<[op |-> "scaffold"]>>
                     /\ pc' = "write"

\* the cleanup placed before the write loop
WritesPendingSkipped == FALSE

\* the loop condition of for (const component of components)
WritesPending == idx <= Len(components)

\* one iteration of the write loop
WriteComponent ==
    /\ pc = "write"
    /\ WritesPending
    /\ LET component == components[idx]
           o == input.options
       IN  /\ generatedFiles' = generatedFiles \cup {component.fileName}
           /\ IF o.augmentAngularOutput
              THEN /\ lit' = WriteTo(lit, component.fileName,
                                     generateComponentFileContent(component, o.standalone))
                   /\ UNCHANGED lib
              ELSE /\ lib' = WriteTo(lib, component.fileName,
                                     inlineComponentContent(component, o.standalone))
                   /\ UNCHANGED lit
           /\ oplog' = Append(oplog, [op |-> "write", dir |-> OutputDir(o),
                                      name |-> component.fileName])
    /\ idx' = idx + 1
    /\ UNCHANGED <<manifestFile, root, dirs, pc, input, components, result, prev, runs>>
    /\ UNCHANGED runtime

\* readdirSync(dir).filter(...): the files the cleanup considers
ExistingDefault(dir, prefix) ==
    {name \in DOMAIN dir : endsWith(name, ComponentSuffix) /\ startsWith(name, prefix)}

ExistingAugmented(dir) == {name \in DOMAIN dir : endsWith(name, ComponentSuffix)}

\* the kept set ignored
StaleAll(existing, kept) == existing

\* no file unlinked
StaleNone(existing, kept) == {}

\* the files the cleanup unlinks
Stale(existing, kept) == {file \in existing : file \notin kept}

\* the directory scan and the unlink loop, after the write loop
CleanupOldFiles ==
    /\ pc = "write"
    /\ ~WritesPending
    /\ LET o == input.options
       IN  IF o.augmentAngularOutput
           THEN LET stale == Stale(ExistingAugmented(lit), generatedFiles)
                IN  /\ lit' = Unlink(lit, stale)
                    /\ oplog' = oplog \o <<[op |-> "readdir", dir |-> "lit"],
                                           [op |-> "unlink", dir |-> "lit", names |-> stale]>>
                    /\ UNCHANGED lib
           ELSE LET stale == Stale(ExistingDefault(lib, o.wrapperSelectorPrefix),
                                   generatedFiles)
                IN  /\ lib' = Unlink(lib, stale)
                    /\ oplog' = oplog \o <<[op |-> "readdir", dir |-> "lib"],
                                           [op |-> "unlink", dir |-> "lib", names |-> stale]>>
                    /\ UNCHANGED lit
    /\ pc' = "helpers"
    /\ UNCHANGED runtime
    /\ UNCHANGED <<manifestFile, root, dirs, input, components, idx, generatedFiles,
                   result, prev, runs>>

\* the registration helper and the public API (in the augmented output:
\* lit/index.ts and the public API), then the return
WriteHelpers ==
    /\ pc = "helpers"
    /\ IF input.options.augmentAngularOutput
       THEN /\ lit' = WriteTo(lit, sIndexTs, generateLitIndexContent(components))
            /\ root' = WriteTo(root, "public-api.ts", generatePublicApiContent)
            /\ oplog' = oplog \o <<[op |-> "write", dir |-> "lit", name |-> sIndexTs],
                                   [op |-> "write", dir |-> "src", name |-> "public-api.ts"]>>
       ELSE /\ root' = WriteTo(WriteTo(root, "register-stencil-components.ts",
                                       registerContent),
                               "public-api.ts", publicApiContent(components))
            /\ oplog' = oplog \o <<[op |-> "write", dir |-> "src",
                                    name |-> "register-stencil-components.ts"],
                                   [op |-> "write", dir |-> "src", name |-> "public-api.ts"]>>
            /\ UNCHANGED lit
    /\ result' = [status |-> "ok", components |-> components,
                  manifestPath |-> input.options.manifestPath]
    /\ pc' = "idle"
    /\ UNCHANGED runtime
    /\ UNCHANGED <<manifestFile, lib, dirs, input, components, idx, generatedFiles,
                   prev, runs>>

\* between two calls the manifest is regenerated
EditManifest ==
    /\ pc = "idle"
    /\ runs < MaxRuns
    /\ manifestFile' \in RunManifests \ {manifestFile}
    /\ UNCHANGED runtime
    /\ UNCHANGED <<lib, lit, root, dirs, pc, input, components, idx, generatedFiles,
                   result, oplog, prev, runs>>

Next ==
    \/ \E o \in RunOptions : Begin(o)
    \/ WriteComponent
    \/ CleanupOldFiles
    \/ WriteHelpers
    \/ EditManifest

Spec == Init /\ [][Next]_vars

(***************************************************************************)
(* Properties of the regeneration runs (Spec)                              *)
(***************************************************************************)
FileOf(o, tag) == o.wrapperSelectorPrefix \o tag \o ComponentSuffix
OutputFiles(o, libFiles, litFiles) == IF o.augmentAngularOutput THEN litFiles ELSE libFiles
TagNames(list) == [i \in 1..Len(list) |-> list[i].tagName]
Deleted(log) ==
    UNION {log[i].names : i \in {j \in 1..Len(log) : log[j].op = "unlink"}}
CallEnded == pc = "idle" /\ runs > 0
SecondCall == CallEnded /\ prev.valid

\* C1: a call with the manifest and the options of the call before it leaves
\* every file of the wrappers directory with the content it had, and deletes
\* no file.
C1_Idempotent ==
    (SecondCall /\ input = prev.input)
        => /\ lib = prev.lib
           /\ lit = prev.lit
           /\ root = prev.root
           /\ Deleted(oplog) = {}

C1_Witness ==
    /\ SecondCall
    /\ input = prev.input
    /\ result.status = "ok"
    /\ Len(result.components) = 3
    /\ Deleted(prev.oplog) # {}

\* C2: after a call that generated A, B and C, a call with the same options
\* on a manifest holding only A returns A alone, leaves A's file and removes
\* the files of B and C.
C2_ConvergenceOnRemoval ==
    (/\ SecondCall
     /\ prev.result.status = "ok"
     /\ prev.input.manifest = mABC
     /\ input.manifest = mA
     /\ input.options = prev.input.options)
        => LET o == input.options
               files == DOMAIN OutputFiles(o, lib, lit)
           IN  /\ {FileOf(o, tA), FileOf(o, tB), FileOf(o, tC)}
                      \subseteq DOMAIN OutputFiles(o, prev.lib, prev.lit)
               /\ result.status = "ok"
               /\ TagNames(result.components) = <<tA>>
               /\ FileOf(o, tA) \in files
               /\ FileOf(o, tB) \notin files
               /\ FileOf(o, tC) \notin files

C2_Witness ==
    /\ SecondCall
    /\ prev.result.status = "ok"
    /\ prev.input.manifest = mABC
    /\ input.manifest = mA
    /\ input.options = prev.input.options
    /\ input.options.augmentAngularOutput
    /\ FileOf(input.options, tB) \in DOMAIN prev.lit
    /\ FileOf(input.options, tB) \notin DOMAIN lit

\* C3: a call deletes a file only if its name starts with the configured
\* prefix, ends with .component.ts and is not in the kept set, in the default
\* and in the augmented output; and a call on a manifest that dropped one
\* component removes that component's file and no other.
C3_DeletesOnlyMatchingUnkept ==
    /\ \A f \in Deleted(oplog) :
          /\ startsWith(f, input.options.wrapperSelectorPrefix)
          /\ endsWith(f, ComponentSuffix)
          /\ f \notin generatedFiles
    /\ (/\ SecondCall
        /\ prev.result.status = "ok"
        /\ result.status = "ok"
        /\ prev.input.manifest = mABC
        /\ input.manifest = mAB
        /\ input.options = prev.input.options)
           => LET o == input.options
              IN  DOMAIN OutputFiles(o, lib, lit)
                    = DOMAIN OutputFiles(o, prev.lib, prev.lit) \ {FileOf(o, tC)}

\* C4: the cleanup of a call runs after all of its component writes: when a
\* file has been unlinked, every component of the call was written before,
\* and no component is written after.
C4_CleanupAfterWrites ==
    \A i \in 1..Len(oplog) :
        oplog[i].op = "unlink" =>
            /\ \A k \in 1..Len(components) :
                   \E j \in 1..(i - 1) :
                       /\ oplog[j].op = "write"
                       /\ oplog[j].dir = OutputDir(input.options)
                       /\ oplog[j].name = components[k].fileName
            /\ \A j \in (i + 1)..Len(oplog) :
                   ~(/\ oplog[j].op = "write"
                     /\ oplog[j].dir = OutputDir(input.options)
                     /\ endsWith(oplog[j].name, ComponentSuffix))

C4_Witness ==
    /\ Len(components) = 3
    /\ Deleted(oplog) # {}
    /\ pc = "helpers"

\* C5: a call with an empty or missing manifestPath throws an error whose
\* message names manifestPath, and does no filesystem work: no directory is
\* created, no file is read, written or deleted.
C5_MissingPathFailsFast ==
    (CallEnded /\ ~Truthy(input.options.manifestPath))
        => /\ result.status = "error"
           /\ \E i \in 1..Len(result.message) : result.message[i] = "manifestPath"
           /\ oplog = <<>>
           /\ dirs = prev.dirs
           /\ lib = prev.lib
           /\ lit = prev.lit
           /\ root = prev.root

C5_Witness ==
    /\ CallEnded
    /\ input.options.manifestPath = JUndefined
    /\ result.status = "error"
    /\ dirs = {}

\* C6: a call on a manifest that is not JSON throws the parse error and
\* recovers nothing: it writes no component file, no public API and no
\* registration file, and deletes no wrapper.
C6_MalformedPropagates ==
    (CallEnded /\ Truthy(input.options.manifestPath) /\ input.manifest = Malformed)
        => /\ result.status = "error"
           /\ result.error = "SyntaxError"
           /\ lib = prev.lib
           /\ lit = prev.lit
           /\ \A f \in {"public-api.ts", "register-stencil-components.ts"} :
                  /\ f \in DOMAIN root <=> f \in DOMAIN prev.root
                  /\ f \in DOMAIN root => root[f] = prev.root[f]
           /\ \A i \in 1..Len(oplog) : oplog[i].op \notin {"write", "unlink"}

C6_Witness ==
    /\ SecondCall
    /\ input.manifest = Malformed
    /\ result.status = "error"
    /\ prev.result.status = "ok"
    /\ Len(prev.result.components) = 3
    /\ FileOf(input.options, tA) \in DOMAIN lib

(***************************************************************************)
(* One call on a manifest of any shape (SpecParse).  The manifest is       *)
(* well-formed JSON whose modules, declarations, members and events may be *)
(* missing, of another type, or hold entries of another type.              *)
(***************************************************************************)
tDigit == <<"x","-","1">>
tUnderscore == <<"x","-","_">>
tDashes == <<"x","-","-","a">>

Obj(kind, tag) == JObj([kind |-> JStr(kind), tagName |-> tag])
WithMembers(tag, members) ==
    JObj([kind |-> JStr(sClass), tagName |-> JStr(tag), members |-> members])
WithEvents(tag, events) ==
    JObj([kind |-> JStr(sClass), tagName |-> JStr(tag), events |-> events])

\* declarations the filter of the walk skips
SkippedDecls ==
    {JNull, JNum(7), JObj([kind |-> JStr(sClass)]), Obj(sFunction, JStr(tB)),
     Obj(sClass, JStr(<<>>))}

\* class declarations whose members or events are missing or no array
LooseDecls ==
    {Obj(sClass, JStr(tA)),
     ClassDecl(tA, JStr(sLabel), JNull),
     WithMembers(tA, JArr(<<JNull, Member(sMethod, sClick), Member(sProperty, sLabel)>>))}

\* class declarations with an entry the mapping of the walk dereferences
OddDecls ==
    {Obj(sClass, JNum(5)),
     WithEvents(tA, JArr(<<JNull>>)),
     WithEvents(tA, JArr(<<JObj([detail |-> JStr(sString)])>>))}

PlainDecls ==
    {dA, dB, ClassDecl(tDigit, JArr(<<>>), JArr(<<>>)),
     ClassDecl(tUnderscore, JArr(<<>>), JArr(<<>>)),
     ClassDecl(tDashes, JArr(<<>>), JArr(<<>>))}

DeclShapes == SkippedDecls \cup LooseDecls \cup OddDecls \cup PlainDecls

DeclLists == UNION {[1..n -> DeclShapes] : n \in 0..MaxDecls}

\* the modules a list of declarations may arrive in
ModuleShapes(decls) ==
    {<<Module(<<"a">>, decls)>>,
     <<JNull, JObj([path |-> JStr(<<"b">>)]), Module(<<"a">>, decls)>>}
    \cup (IF decls = <<>> THEN {}
          ELSE {<<Module(<<"b">>, Tail(decls)),
                  JObj([path |-> JStr(<<"c">>), declarations |-> JStr(sString)]),
                  Module(<<"a">>, <<Head(decls)>>)>>})

ManifestShapes ==
    {JNull, JObj([schemaVersion |-> JStr(<<"1">>)]),
     JObj([modules |-> JStr(sString)]), mEmpty}
    \cup {Manifest(modules) : modules \in UNION {ModuleShapes(decls) : decls \in DeclLists}}

ParseOptions ==
    {Options(JStr(sManifestPath), pWc, FALSE, TRUE),
     Options(JStr(sManifestPath), pUi, TRUE, TRUE)}

InitParse ==
    /\ manifestFile \in ManifestShapes
    /\ lib = EmptyDir
    /\ lit = EmptyDir
    /\ dirs = {}
    /\ root = EmptyDir
    /\ pc = "idle"
    /\ input = NoInput
    /\ components = <<>>
    /\ idx = 1
    /\ generatedFiles = {}
    /\ result = NoResult
    /\ oplog = <<>>
    /\ runs = 0
    /\ prev = [valid |-> FALSE]
    /\ NothingLoaded

NextParse ==
    \/ \E o \in ParseOptions : runs = 0 /\ Begin(o)
    \/ WriteComponent
    \/ CleanupOldFiles
    \/ WriteHelpers

SpecParse == InitParse /\ [][NextParse]_vars

(***************************************************************************)
(* Properties of the manifest walk (SpecParse)                             *)
(***************************************************************************)
EmptyArrayUnlessArray(x) == IF IsArray(x) THEN x ELSE JArr(<<>>)

\* the declaration with members and events that are arrays
NormalizeDecl(decl) ==
    IF decl.t # "object" THEN decl
    ELSE JObj([k \in DOMAIN decl.v \cup {"members", "events"} |->
                 IF k \in {"members", "events"}
                 THEN EmptyArrayUnlessArray(Get(decl, k))
                 ELSE decl.v[k]])

\* the module with declarations that are an array
NormalizeModule(mod) ==
    IF mod.t # "object" THEN mod
    ELSE LET declarations == EmptyArrayUnlessArray(Get(mod, "declarations")).v
         IN  JObj([k \in DOMAIN mod.v \cup {"declarations"} |->
                     IF k = "declarations"
                     THEN JArr([i \in 1..Len(declarations) |->
                                   NormalizeDecl(declarations[i])])
                     ELSE mod.v[k]])

\* the manifest with every missing or non-array modules, declarations,
\* members and events field replaced by an empty array
Normalize(manifest) ==
    IF manifest.t # "object" THEN manifest
    ELSE LET modules == EmptyArrayUnlessArray(Get(manifest, "modules")).v
         IN  JObj([k \in DOMAIN manifest.v \cup {"modules"} |->
                     IF k = "modules"
                     THEN JArr([i \in 1..Len(modules) |-> NormalizeModule(modules[i])])
                     ELSE manifest.v[k]])

ScaffoldWritten == {"package.json", "tsconfig.json"} \subseteq DOMAIN root

mLoose == Manifest(<<Module(<<"a">>, <<ClassDecl(tA, JStr(sLabel), JNull), dB>>)>>)

\* C7: a manifest with a missing or non-array modules, declarations, members
\* or events field is processed as the manifest with an empty array in the
\* field's place: whenever that one is processed without error, so is this
\* one, with the same components and the scaffold files written; a manifest
\* without modules yields no component.
C7_MissingTreatedAsEmpty ==
    CallEnded =>
        LET expected == parseManifest(Normalize(input.manifest),
                                      input.options.wrapperSelectorPrefix)
        IN  /\ expected.ok =>
                  /\ result.status = "ok"
                  /\ result.components = expected.components
                  /\ ScaffoldWritten
            /\ ~IsArray(GetOpt(input.manifest, "modules")) \/ input.manifest = mEmpty
                  => /\ result.status = "ok"
                     /\ result.components = <<>>
                     /\ ScaffoldWritten

C7_Witness ==
    /\ CallEnded
    /\ input.manifest = mLoose
    /\ result.status = "ok"
    /\ Len(result.components) = 2
    /\ result.components[1].members = <<>>
    /\ result.components[1].events = <<>>

\* for (const mod of modules) for (const decl of mod.declarations): the
\* declarations the walk visits
RECURSIVE DeclarationsIn(_)
DeclarationsIn(modules) ==
    IF modules = <<>> THEN <<>>
    ELSE LET declarations == GetOpt(Head(modules), "declarations")
         IN  (IF IsArray(declarations) THEN declarations.v ELSE <<>>)
                 \o DeclarationsIn(Tail(modules))

DeclarationsOf(manifest) ==
    DeclarationsIn(EmptyArrayUnlessArray(GetOpt(manifest, "modules")).v)

\* a non-null object with kind "class" and a non-empty tagName
EligibleDeclaration(decl) ==
    /\ decl.t = "object"
    /\ Get(decl, "kind") = JStr(sClass)
    /\ Get(decl, "tagName").t \notin {"undefined", "null"}
    /\ Get(decl, "tagName") # JStr(<<>>)

EligibleOf(manifest) == SelectSeq(DeclarationsOf(manifest), EligibleDeclaration)

\* C8: on every well-formed JSON manifest, whatever its shape, the call
\* completes without throwing and returns as many records as there are
\* eligible declarations.
C8_ParsingNeverFails ==
    CallEnded =>
        /\ result.status = "ok"
        /\ Len(result.components) = Len(EligibleOf(input.manifest))

\* C9: the returned components are in ascending lexicographic order of
\* tagName, and the component files are written and the class names listed
\* in the aggregate export file in the order of the returned list.
C9_AscendingLexicographic ==
    (CallEnded /\ result.status = "ok") =>
        LET list == result.components
            written == SelectSeq(oplog, LAMBDA e : e.op = "write"
                                                  /\ e.dir = OutputDir(input.options)
                                                  /\ endsWith(e.name, ComponentSuffix))
            classNames == [i \in 1..Len(list) |-> list[i].className]
        IN  /\ \A i, j \in 1..Len(list) :
                   i < j => codeUnitCompare(list[i].tagName, list[j].tagName) <= 0
            /\ [i \in 1..Len(written) |-> written[i].name]
                   = [i \in 1..Len(list) |-> list[i].fileName]
            /\ IF input.options.augmentAngularOutput
               THEN lit[sIndexTs].directives = classNames
               ELSE root["public-api.ts"].wrapperComponents = classNames

sMyButton == <<"m","y","-","b","u","t","t","o","n">>

\* C10: the call yields one record for each declaration, of any module, that
\* is a non-null object with kind "class" and a non-empty tagName, and none
\* for another declaration; a record's selector is the prefix followed by the
\* tagName, its className "Wc" + PascalCase(tagName) + "Component", its
\* fileName the selector followed by ".component.ts".
C10_OneRecordPerEligible ==
    CallEnded =>
        LET eligible == EligibleOf(input.manifest)
            prefix == input.options.wrapperSelectorPrefix
        IN  /\ result.status = "ok"
            /\ Len(result.components) = Len(eligible)
            /\ \A j \in 1..Len(eligible) :
                   Cardinality({i \in 1..Len(result.components) :
                                   JStr(result.components[i].tagName)
                                       = Get(eligible[j], "tagName")})
                     = Cardinality({k \in 1..Len(eligible) :
                                       Get(eligible[k], "tagName")
                                           = Get(eligible[j], "tagName")})
            /\ \A i \in 1..Len(result.components) :
                   LET component == result.components[i]
                   IN  /\ component.selector = prefix \o component.tagName
                       /\ component.className
                              = sWc \o toPascalCase(component.tagName) \o sComponent
                       /\ component.fileName = component.selector \o ComponentSuffix
            /\ toPascalCase(sMyButton) = <<"M","y","B","u","t","t","o","n">>

(***************************************************************************)
(* One call on a manifest with one declaration whose members and events    *)
(* vary (SpecEmit), in the default and the augmented output, standalone or *)
(* not.                                                                    *)
(***************************************************************************)
MaxMembers == 2
MaxEvents == 2

sData == <<"d","a","t","a">>
sColumns == <<"c","o","l","u","m","n","s">>
sItems == <<"i","t","e","m","s">>
sPrivateHelper == <<"_","p","r","i","v","a","t","e","H","e","l","p","e","r">>
sInternalState == <<"#","i","n","t","e","r","n","a","l","S","t","a","t","e">>
sProtectedProp == <<"p","r","o","t","e","c","t","e","d","P","r","o","p">>
sSecret == <<"s","e","c","r","e","t">>
sProtected == <<"p","r","o","t","e","c","t","e","d">>
sPrivate == <<"p","r","i","v","a","t","e">>
sColumnsType == <<"C","o","l","u","m","n","D","e","f","i","n","i","t","i","o","n","[","]"," ","|"," ","G","r","i","d","D","a","t","a">>
sArrayOfString == <<"A","r","r","a","y","<","s","t","r","i","n","g",">">>
sColumnDefinition == <<"C","o","l","u","m","n","D","e","f","i","n","i","t","i","o","n">>
sGridData == <<"G","r","i","d","D","a","t","a">>
sRowClickDetail == <<"R","o","w","C","l","i","c","k","D","e","t","a","i","l">>
sRowClickEvent == <<"C","u","s","t","o","m","E","v","e","n","t","<","R","o","w","C","l","i","c","k","D","e","t","a","i","l",">">>
sButtonClick == <<"b","u","t","t","o","n","-","c","l","i","c","k">>
sButtonClickId == <<"b","u","t","t","o","n","C","l","i","c","k">>
sItemSelected == <<"i","t","e","m","-","s","e","l","e","c","t","e","d">>
sItemSelectedId == <<"i","t","e","m","S","e","l","e","c","t","e","d">>
sItemUpdated == <<"i","t","e","m",".","u","p","d","a","t","e","d">>
sItemUpdatedId == <<"i","t","e","m","u","p","d","a","t","e","d">>
sInvalid == <<"1","2","3","-","i","n","v","a","l","i","d">>
sInvalidId == <<"_","1","2","3","I","n","v","a","l","i","d">>
sItemDeleted == <<"I","T","E","M","_","D","E","L","E","T","E","D">>
sEventId == <<"e","v","e","n","t">>
sAButton == <<"A"," ","b","u","t","t","o","n">>
sBlank == <<" ", " ">>

mData == Member(sField, sData)
mLabel == RequiredMember(sLabel, sString)
mColumns ==
    JObj([kind |-> JStr(sProperty), name |-> JStr(sColumns),
          type |-> JObj([text |-> JStr(sColumnsType)]), optional |-> JBool(TRUE),
          description |-> JStr(sAButton)])
mItems ==
    JObj([kind |-> JStr(sField), name |-> JStr(sItems),
          type |-> JObj([text |-> JStr(sArrayOfString)])])
mPrivateHelper == Member(sField, sPrivateHelper)
mInternalState == Member(sField, sInternalState)
mProtectedProp ==
    JObj([kind |-> JStr(sField), name |-> JStr(sProtectedProp),
          modifiers |-> JArr(<<JStr(sProtected)>>)])
mSecret ==
    JObj([kind |-> JStr(sProperty), name |-> JStr(sSecret), privacy |-> JStr(sPrivate)])

MemberShapes ==
    {mData, mLabel, mColumns, mItems, Member(sMethod, sClick),
     mPrivateHelper, mInternalState, mProtectedProp, mSecret}

eRowClick ==
    JObj([name |-> JStr(sItemDeleted), type |-> JObj([text |-> JStr(sRowClickEvent)])])
eUpdated == JObj([name |-> JStr(sItemUpdated), description |-> JStr(sAButton)])

EventShapes ==
    {Event(sButtonClick), Event(sItemSelected), Event(sItemSelectedId), Event(sInvalid),
     eRowClick, eUpdated}

MemberLists(n) == UNION {[1..k -> MemberShapes] : k \in 0..n}
EventLists(n) == UNION {[1..k -> EventShapes] : k \in 0..n}

Described(decl, description) ==
    JObj([k \in DOMAIN decl.v \cup {"description"} |->
             IF k = "description" THEN description ELSE decl.v[k]])

EmitDecls ==
    {ClassDecl(tA, JArr(m), JArr(<<>>)) : m \in MemberLists(MaxMembers)}
    \cup {ClassDecl(tA, JArr(<<>>), JArr(e)) : e \in EventLists(MaxEvents)}
    \cup {ClassDecl(tA, JArr(m), JArr(e)) : m \in MemberLists(1), e \in EventLists(1)}
    \cup {Described(ClassDecl(tA, JArr(m), JArr(<<>>)), d) :
             m \in MemberLists(1), d \in {JStr(sAButton), JStr(sBlank)}}

EmitManifests == {Manifest(<<Module(<<"a">>, <<decl>>)>>) : decl \in EmitDecls}

EmitOptions ==
    {Options(JStr(sManifestPath), pWc, a, st) : a \in BOOLEAN, st \in BOOLEAN}

InitEmit ==
    /\ manifestFile \in EmitManifests
    /\ lib = EmptyDir
    /\ lit = EmptyDir
    /\ dirs = {}
    /\ root = EmptyDir
    /\ pc = "idle"
    /\ input = NoInput
    /\ components = <<>>
    /\ idx = 1
    /\ generatedFiles = {}
    /\ result = NoResult
    /\ oplog = <<>>
    /\ runs = 0
    /\ prev = [valid |-> FALSE]
    /\ NothingLoaded

NextEmit ==
    \/ \E o \in EmitOptions : runs = 0 /\ Begin(o)
    \/ WriteComponent
    \/ CleanupOldFiles
    \/ WriteHelpers

SpecEmit == InitEmit /\ [][NextEmit]_vars

(***************************************************************************)
(* Properties of the emitted wrappers (SpecEmit)                           *)
(***************************************************************************)
Succeeded == CallEnded /\ result.status = "ok"

\* the declaration of the manifest of the call
TheDecl == DeclarationsOf(input.manifest)[1]

\* the wrapper file of the call's component, as written
TheWrapper ==
    OutputFiles(input.options, lib, lit)[result.components[1].fileName]

MarkedPrivate(member) ==
    LET modifiers == EmptyArrayUnlessArray(Get(member, "modifiers")).v
    IN  \/ Get(member, "privacy") \in {JStr(sPrivate), JStr(sProtected)}
        \/ \E i \in 1..Len(modifiers) : modifiers[i] \in {JStr(sPrivate), JStr(sProtected)}

\* a field or property whose name has no private-field marker and that is
\* not marked private or protected
PublicField(member) ==
    /\ Get(member, "kind") \in {JStr(sField), JStr(sProperty)}
    /\ ~startsWith(Get(member, "name").v, <<"#">>)
    /\ ~startsWith(Get(member, "name").v, <<"_">>)
    /\ ~MarkedPrivate(member)

PublicNames(decl) ==
    LET public == SelectSeq(Get(decl, "members").v, PublicField)
    IN  [i \in 1..Len(public) |-> Get(public[i], "name").v]

\* C11: the members of a ComponentMeta are, in manifest order, the manifest
\* members of kind field or property whose name starts with no private-field
\* marker and that are not marked private or protected.
C11_PrivacyFiltering ==
    Succeeded =>
        [i \in 1..Len(result.components[1].members) |->
            result.components[1].members[i].name] = PublicNames(TheDecl)

(***************************************************************************)
(* One call on a manifest with one event whose name is any string of up to *)
(* MaxName characters (SpecIdent)                                          *)
(***************************************************************************)
MaxName == 3
NameChars == {"a", "B", "1", "-", "_", "."}

EventNames ==
    UNION {[1..n -> NameChars] : n \in 0..MaxName}
    \cup {sItemSelected, sItemUpdated, sInvalid, sItemDeleted}

IdentManifests ==
    {Manifest(<<Module(<<"a">>, <<ClassDecl(tA, JArr(<<>>), JArr(<<Event(name)>>))>>)>>) :
        name \in EventNames}

InitIdent ==
    /\ manifestFile \in IdentManifests
    /\ lib = EmptyDir
    /\ lit = EmptyDir
    /\ dirs = {}
    /\ root = EmptyDir
    /\ pc = "idle"
    /\ input = NoInput
    /\ components = <<>>
    /\ idx = 1
    /\ generatedFiles = {}
    /\ result = NoResult
    /\ oplog = <<>>
    /\ runs = 0
    /\ prev = [valid |-> FALSE]
    /\ NothingLoaded

NextIdent ==
    \/ runs = 0 /\ Begin(Options(JStr(sManifestPath), pWc, FALSE, TRUE))
    \/ WriteComponent
    \/ CleanupOldFiles
    \/ WriteHelpers

SpecIdent == InitIdent /\ [][NextIdent]_vars

\* a letter or underscore followed by letters, digits and underscores
ValidIdentifier(id) ==
    /\ id # <<>>
    /\ IsLetter(id[1]) \/ id[1] = "_"
    /\ \A i \in 1..Len(id) : IsLetter(id[i]) \/ IsDigit(id[i]) \/ id[i] = "_"

\* the characters of the name that are letters, digits or underscores, a
\* letter or digit that follows a dash in upper case
KeptChars(name) ==
    LET positions == SelectSeq([i \in 1..Len(name) |-> i],
                               LAMBDA i : IsLetter(name[i]) \/ IsDigit(name[i])
                                              \/ name[i] = "_")
    IN  [k \in 1..Len(positions) |->
            LET i == positions[k]
            IN  IF i > 1 /\ name[i - 1] = "-" /\ name[i] # "_"
                THEN ToUpperChar(name[i]) ELSE name[i]]

SafeIdentifier(name) ==
    IF KeptChars(name) = <<>> THEN sEventId
    ELSE IF IsDigit(KeptChars(name)[1]) THEN <<"_">> \o KeptChars(name)
    ELSE KeptChars(name)

\* C12: the output name of an event is a valid bare identifier: the name with
\* each dash that precedes a letter or digit replaced by that character in
\* upper case and every other character outside [A-Za-z0-9_] removed, 'event'
\* when nothing is left, prefixed with '_' when it would start with a digit.
C12_SafeIdentifier ==
    /\ Succeeded =>
          LET event == result.components[1].events[1]
          IN  /\ ValidIdentifier(event.outputName)
              /\ event.outputName = SafeIdentifier(event.eventName)
    /\ toIdentifier(sItemSelected) = sItemSelectedId
    /\ toIdentifier(sItemUpdated) = sItemUpdatedId
    /\ toIdentifier(sInvalid) = sInvalidId
    /\ toIdentifier(sItemDeleted) = sItemDeleted

C12_Witness ==
    /\ Succeeded
    /\ result.components[1].events[1].eventName = sInvalid
    /\ result.components[1].events[1].outputName = sInvalidId

\* the tokens of a type text: the words (runs of letters, digits and
\* underscores bounded by other characters or the ends of the text) of two
\* characters or more that start with an upper-case letter
TokensOf(text) ==
    LET word(i) == IsLetter(text[i]) \/ IsDigit(text[i]) \/ text[i] = "_"
    IN  {SubSeq(text, i, j) : <<i, j>> \in
            {p \in (1..Len(text)) \X (1..Len(text)) :
                /\ p[1] < p[2]
                /\ IsUpper(text[p[1]])
                /\ \A k \in p[1]..p[2] : word(k)
                /\ p[1] = 1 \/ ~word(p[1] - 1)
                /\ p[2] = Len(text) \/ ~word(p[2] + 1)}}

CustomTypes(component) ==
    (UNION {TokensOf(component.members[i].type) : i \in 1..Len(component.members)}
     \cup UNION {TokensOf(component.events[i].type) : i \in 1..Len(component.events)})
    \ BUILT_IN_TYPE_TOKENS

\* C13: the custom types of a component are the tokens of the type texts of
\* its members and events that are not built in, every token of a union or
\* generic included; the wrapper has a type-only import iff there is one,
\* listing each once in ascending order, from the component library.
C13_CustomTypeImport ==
    /\ Succeeded =>
          LET custom == CustomTypes(result.components[1])
              import == TheWrapper.typeImport
          IN  /\ custom = {} <=> import = <<>>
              /\ custom # {} =>
                    /\ Len(import) = 1
                    /\ import[1].from = "web-components"
                    /\ {import[1].tokens[i] : i \in 1..Len(import[1].tokens)} = custom
                    /\ Len(import[1].tokens) = Cardinality(custom)
                    /\ \A i \in 1..(Len(import[1].tokens) - 1) :
                           codeUnitCompare(import[1].tokens[i],
                                           import[1].tokens[i + 1]) < 0
    /\ addTypeTokens(sArrayOfString) = {}
    /\ addTypeTokens(sColumnsType) = {sColumnDefinition, sGridData}

C13_Witness ==
    /\ Succeeded
    /\ Len(result.components[1].members) = 1
    /\ Len(result.components[1].events) = 1
    /\ Len(TheWrapper.typeImport) = 1
    /\ TheWrapper.typeImport[1].tokens = <<sColumnDefinition, sGridData, sRowClickDetail>>

Implements(wrapper, interface) ==
    \E i \in 1..Len(wrapper.implements) : wrapper.implements[i] = interface

\* C14: the wrapper has property-binding code (Input declarations, OnChanges,
\* ngOnChanges, syncInputs) iff the component has a member, and event code
\* (Output emitters, OnDestroy, ngOnDestroy, the listener helpers, the NgZone
\* constructor) iff it has an event; with neither the class implements only
\* AfterViewInit and has no helper method.
C14_StructuralBranching ==
    Succeeded =>
        LET wrapper == TheWrapper
            hasMembers == Len(result.components[1].members) > 0
            hasEvents == Len(result.components[1].events) > 0
        IN  /\ hasMembers <=> wrapper.inputLines # <<>>
            /\ hasMembers <=> "Input" \in wrapper.imports
            /\ hasMembers <=> Implements(wrapper, "OnChanges")
            /\ hasMembers <=> "ngOnChanges" \in wrapper.methods
            /\ hasMembers <=> "syncInputs" \in wrapper.methods
            /\ hasEvents <=> wrapper.eventLines # <<>>
            /\ hasEvents <=> "Output" \in wrapper.imports
            /\ hasEvents <=> Implements(wrapper, "OnDestroy")
            /\ hasEvents <=> "ngOnDestroy" \in wrapper.methods
            /\ hasEvents <=> "setupEventListeners" \in wrapper.methods
            /\ hasEvents <=> "addEventListener" \in wrapper.methods
            /\ hasEvents <=> "constructor" \in wrapper.methods
            /\ hasEvents <=> "NgZone" \in wrapper.imports
            /\ (~hasMembers /\ ~hasEvents) =>
                   /\ wrapper.implements = <<"AfterViewInit">>
                   /\ wrapper.methods = {"ngAfterViewInit"}

C14_Witness ==
    /\ Succeeded
    /\ Len(result.components[1].members) = 2
    /\ Len(result.components[1].events) = 0
    /\ "syncInputs" \in TheWrapper.methods
    /\ "ngOnDestroy" \notin TheWrapper.methods
    /\ input.options.augmentAngularOutput

\* C15: CUSTOM_ELEMENTS_SCHEMA is in the import list of the wrapper, and in
\* the schemas of its decorator, only when the standalone option is true; the
\* decorator carries the value of the option.
C15_SchemaOnlyStandalone ==
    Succeeded =>
        /\ "CUSTOM_ELEMENTS_SCHEMA" \in TheWrapper.imports <=> input.options.standalone
        /\ TheWrapper.decorator.schemas <=> input.options.standalone
        /\ TheWrapper.decorator.standalone = input.options.standalone

\* C16: the decorator of the wrapper has an inputs array iff standalone is
\* false and the component has a member; the array lists the member names in
\* member order; in the default and in the augmented output.
C16_InputsMetadata ==
    Succeeded =>
        LET members == result.components[1].members
            inputs == TheWrapper.decorator.inputs
        IN  /\ inputs # <<>> <=> (~input.options.standalone /\ Len(members) > 0)
            /\ inputs # <<>> => inputs[1] = [i \in 1..Len(members) |-> members[i].name]

\* C17: the wrapper has one emitter for each event of the manifest, in
\* manifest order, named by the safe identifier of the event name; the
\* emitter is aliased to the event name iff the two differ.
C17_OneEmitterPerEvent ==
    Succeeded =>
        LET events == Get(TheDecl, "events").v
            lines == TheWrapper.eventLines
        IN  /\ Len(lines) = Len(events)
            /\ \A i \in 1..Len(events) :
                   LET name == Get(events[i], "name").v
                   IN  /\ lines[i].outputName = SafeIdentifier(name)
                       /\ lines[i].alias
                              = IF SafeIdentifier(name) # name THEN <<name>> ELSE <<>>
                       /\ name = sButtonClick =>
                              /\ lines[i].outputName = sButtonClickId
                              /\ lines[i].alias = <<sButtonClick>>
                       /\ name = sItemDeleted =>
                              /\ lines[i].outputName = sItemDeleted
                              /\ lines[i].alias = <<>>

C17_Witness ==
    /\ Succeeded
    /\ Len(TheWrapper.eventLines) = 2
    /\ TheWrapper.eventLines[1].alias = <<sButtonClick>>
    /\ TheWrapper.eventLines[1].outputName = sButtonClickId
    /\ TheWrapper.eventLines[2].alias = <<>>
    /\ TheWrapper.eventLines[2].outputName = sItemDeleted

\* the manifest members the member filter keeps
FieldsOf(decl) ==
    SelectSeq(Get(decl, "members").v,
              LAMBDA member : Get(member, "kind") \in {JStr(sField), JStr(sProperty)})

\* C18: a member is optional when the manifest omits the flag and has the
\* declared value otherwise; its type is the declared type text, or any when
\* there is none; its declaration is name?: type iff it is optional and
\* name: type iff it is required.
C18_OptionalAndType ==
    Succeeded =>
        LET fields == FieldsOf(TheDecl)
            members == result.components[1].members
            lines == TheWrapper.inputLines
        IN  /\ Len(members) = Len(fields)
            /\ Len(lines) = Len(fields)
            /\ \A i \in 1..Len(fields) :
                   LET optional == Get(fields[i], "optional")
                       text == GetOpt(Get(fields[i], "type"), "text")
                   IN  /\ members[i].optional
                              = IF optional = JUndefined THEN TRUE ELSE optional.v
                       /\ members[i].type = IF text = JUndefined THEN sAny ELSE text.v
                       /\ lines[i].name = Get(fields[i], "name").v
                       /\ lines[i].type = members[i].type
                       /\ lines[i].mark = "?:" <=> members[i].optional
                       /\ lines[i].mark = ":" <=> ~members[i].optional

C18_Witness ==
    /\ Succeeded
    /\ Len(TheWrapper.inputLines) = 2
    /\ TheWrapper.inputLines[1].name = sData
    /\ TheWrapper.inputLines[1].mark = "?:"
    /\ TheWrapper.inputLines[1].type = sAny
    /\ TheWrapper.inputLines[2].name = sLabel
    /\ TheWrapper.inputLines[2].mark = ":"
    /\ TheWrapper.inputLines[2].type = sString

NonBlank(text) == \E i \in 1..Len(text) : text[i] # " "

HeaderHas(wrapper, line) ==
    \E i \in 1..Len(wrapper.header) : wrapper.header[i].line = line

\* C19: the header comment of the wrapper holds the description of the
\* component when there is one that is not blank, and the sentence
\* "Auto-generated Angular wrapper for <tag>." only when there is none; it
\* holds the path of the source module, or n/a, and the do-not-edit notice.
C19_HeaderDescription ==
    Succeeded =>
        LET description == Get(TheDecl, "description")
            described == IsString(description) /\ NonBlank(description.v)
            wrapper == TheWrapper
        IN  /\ described =>
                   \E i \in 1..Len(wrapper.header) :
                       /\ wrapper.header[i].line = "description"
                       /\ wrapper.header[i].text = description.v
            /\ HeaderHas(wrapper, "Auto-generated Angular wrapper for") <=> ~described
            /\ \E i \in 1..Len(wrapper.header) :
                   /\ wrapper.header[i].line = "Source:"
                   /\ wrapper.header[i].path = JStr(<<"a">>)
            /\ HeaderHas(wrapper,
                   "DO NOT EDIT - generated by the Custom Elements -> Angular generator.")

\* C20: after a successful call the public API file imports and re-exports
\* the class of every component of the call, re-exports the registration
\* helper, and exports a list of the class names of the call's components in
\* tagName order; it names no class of another component.
C20_PublicApiAggregate ==
    Succeeded =>
        LET api == root["public-api.ts"]
            classes == [i \in 1..Len(result.components) |->
                           result.components[i].className]
        IN  /\ {"imports", "exports", "helper", "wrapperComponents"} \subseteq DOMAIN api
            /\ [i \in 1..Len(api.imports) |-> api.imports[i].className] = classes
            /\ [i \in 1..Len(api.exports) |-> api.exports[i].className] = classes
            /\ api.helper = "registerStencilComponents"
            /\ api.wrapperComponents = classes

(***************************************************************************)
(* The emitted register-stencil-components.ts at run time (SpecRegister):  *)
(* the module is loaded once per process, registerStencilComponents is     *)
(* called any number of times, the global window may or may not be         *)
(* defined, and the imported defineCustomElements returns or throws.       *)
(***************************************************************************)
MaxCalls == 5

\* what the imported defineCustomElements(window) may do
LoaderOutcomes == {"returned", "threw"}

\* let componentsDefined = false; at module load
registerModule(windowDefined) ==
    [loaded |-> TRUE, componentsDefined |-> FALSE, window |-> windowDefined,
     calls |-> <<>>]

\* the latch left out of the condition
SkipsRegistrationWindowOnly(module) == ~module.window

\* if (componentsDefined || typeof window === 'undefined') return;
SkipsRegistration(module) == module.componentsDefined \/ ~module.window

\* one call of registerStencilComponents(); a throw of defineCustomElements
\* leaves the function before componentsDefined = true
registerStencilComponents(outcome) ==
    /\ register.loaded
    /\ Len(register.calls) < MaxCalls
    /\ LET call == [window |-> register.window, latch |-> register.componentsDefined]
       IN  IF SkipsRegistration(register)
           THEN /\ outcome = "returned"
                /\ register' =
                     [register EXCEPT !.calls = Append(@, call @@ [did |-> "skipped"])]
           ELSE register' =
                     [register EXCEPT
                        !.calls = Append(@, call @@ [did |-> outcome]),
                        !.componentsDefined = (outcome = "returned")]
    /\ UNCHANGED <<manifestFile, lib, lit, root, dirs, pc, input, components, idx,
                   generatedFiles, result, oplog, prev, runs, instance, procs>>

\* the process gains or loses its global window (a DOM shim is installed or
\* removed)
SetWindow ==
    /\ register.loaded
    /\ Len(register.calls) < MaxCalls
    /\ register' = [register EXCEPT !.window = ~@]
    /\ UNCHANGED <<manifestFile, lib, lit, root, dirs, pc, input, components, idx,
                   generatedFiles, result, oplog, prev, runs, instance, procs>>

InitRegister ==
    /\ manifestFile = mA
    /\ lib = EmptyDir
    /\ lit = EmptyDir
    /\ dirs = {}
    /\ root = EmptyDir
    /\ pc = "idle"
    /\ input = NoInput
    /\ components = <<>>
    /\ idx = 1
    /\ generatedFiles = {}
    /\ result = NoResult
    /\ oplog = <<>>
    /\ runs = 0
    /\ prev = [valid |-> FALSE]
    /\ \E windowDefined \in BOOLEAN : register = registerModule(windowDefined)
    /\ instance = NotLoaded
    /\ procs = NotLoaded

NextRegister ==
    \/ \E outcome \in LoaderOutcomes : registerStencilComponents(outcome)
    \/ SetWindow

SpecRegister == InitRegister /\ [][NextRegister]_vars

\* the calls that reached defineCustomElements(window)
Invocations == {i \in 1..Len(register.calls) : register.calls[i].did # "skipped"}
Completed == {i \in Invocations : register.calls[i].did = "returned"}

\* C21 (as stated): defineCustomElements is invoked at most once over any
\* sequence of calls, never while window is undefined; componentsDefined is
\* false until a registration call has completed.
C21_InvokedAtMostOnce ==
    /\ Cardinality(Invocations) <= 1
    /\ \A i \in Invocations : register.calls[i].window
    /\ register.componentsDefined <=> Completed # {}

\* C21 (amended): defineCustomElements completes at most once and is never
\* invoked after it has completed, nor while window is undefined; every call
\* that invokes it found componentsDefined false, and componentsDefined is
\* true exactly when an invocation has completed.  An invocation that threw
\* leaves componentsDefined false, and the next call invokes it again.
C21_RegistersOnce ==
    /\ Cardinality(Completed) <= 1
    /\ \A i \in Completed : \A j \in Invocations : j <= i
    /\ \A i \in Invocations : register.calls[i].window /\ ~register.calls[i].latch
    /\ \A i \in 1..Len(register.calls) :
          register.calls[i].did = "skipped"
              <=> (register.calls[i].latch \/ ~register.calls[i].window)
    /\ register.componentsDefined <=> Completed # {}

\* an invocation threw, the next one completed, and a later call with a
\* window was skipped
C21_Witness ==
    \E i, j, k \in 1..Len(register.calls) :
        /\ i < j /\ j < k
        /\ register.calls[i].did = "threw"
        /\ register.calls[j].did = "returned"
        /\ register.calls[k].did = "skipped" /\ register.calls[k].window

(***************************************************************************)
(* Further properties of the regeneration runs (Spec)                      *)
(***************************************************************************)
ScaffoldNames == {"package.json", "tsconfig.json"}

\* the names the call in progress has written so far
Written(log) == {log[i].name : i \in {j \in 1..Len(log) : log[j].op = "write"}}

\* a scaffold file the call found keeps its content
ScaffoldKept ==
    (runs > 0 /\ prev.valid) =>
        \A f \in ScaffoldNames \cap DOMAIN prev.root :
            f \in DOMAIN root /\ root[f] = prev.root[f]

\* C22: a call never overwrites a package.json or tsconfig.json it finds,
\* whatever its options, and every successful call writes each component
\* file, the registration helper and public-api.ts.
C22_ScaffoldKeptOthersRewritten ==
    /\ ScaffoldKept
    /\ (CallEnded /\ result.status = "ok") =>
          /\ \A i \in 1..Len(result.components) :
                result.components[i].fileName \in Written(oplog)
          /\ {"register-stencil-components.ts", "public-api.ts"} \subseteq Written(oplog)

(***************************************************************************)
(* An instance of an emitted wrapper class at run time (SpecWrapper).      *)
(* The framework constructs the instance, assigns its inputs, calls the    *)
(* hooks the class has, and destroys it; the host element receives native  *)
(* events at any time.  The hooks do what the statements of the emitted    *)
(* file say.                                                               *)
(***************************************************************************)
MaxDispatch == 2

sUndefined == "undefined"
sInitial == "initial"
InputValues == {"v1", "v2"}

WrapperDecls ==
    {ClassDecl(tA, JArr(m), JArr(e)) :
        m \in {<<>>, <<mLabel>>, <<mLabel, mData>>},
        e \in {<<>>, <<Event(sButtonClick)>>, <<Event(sButtonClick), eRowClick>>}}

\* the component records of the wrappers that are instantiated
WrapperComponents ==
    {parseManifest(Manifest(<<Module(<<"a">>, <<decl>>)>>), pWc).components[1] :
        decl \in WrapperDecls}

\* the events the host element may receive: the declared ones and a foreign one
NativeEvents == {sButtonClick, sItemDeleted, sClick}

\* new <className>(ngZone), with the host element as the custom element
\* created it: the inputs have no initializer, teardownFns = []
construct(component, file) ==
    [loaded |-> TRUE,
     component |-> component,
     file |-> file,
     phase |-> "constructed",
     props |-> [m \in {file.assignments[i] : i \in 1..Len(file.assignments)} |-> sUndefined],
     element |-> FALSE,
     elementProps |->
         [m \in {file.assignments[i] : i \in 1..Len(file.assignments)} |-> sInitial],
     listeners |-> {},
     teardownFns |-> <<>>,
     steps |-> <<>>,
     last |-> "constructor",
     dispatched |-> <<>>]

\* syncInputs as a method that does nothing
syncInputsSkipped(inst) == inst

\* syncInputs(): if (!this.element) return; then one assignment per member
syncInputs(inst) ==
    IF ~inst.element THEN inst
    ELSE [inst EXCEPT !.elementProps = [m \in DOMAIN @ |-> inst.props[m]]]

\* addEventListener(eventName, listener): the handler runs the listener in
\* ngZone.run, is attached to the element, and its removal is pushed on
\* teardownFns
addEventListener(inst, binding) ==
    IF ~inst.element THEN inst
    ELSE LET handler == [id |-> Len(inst.teardownFns) + 1,
                         eventName |-> binding.eventName,
                         emits |-> binding.outputName,
                         zone |-> "ngZone.run"]
         IN  [inst EXCEPT !.listeners = @ \cup {handler},
                          !.teardownFns = Append(@, handler.id)]

\* setupEventListeners(): if (!this.element) return; then one
\* this.addEventListener per event
RECURSIVE bindFrom(_, _)
bindFrom(inst, i) ==
    IF i > Len(inst.file.eventBindings) THEN inst
    ELSE bindFrom(addEventListener(inst, inst.file.eventBindings[i]), i + 1)

setupEventListeners(inst) == IF ~inst.element THEN inst ELSE bindFrom(inst, 1)

\* one statement of ngAfterViewInit
Statement(inst, statement) ==
    LET after ==
            CASE statement = "captureElement" -> [inst EXCEPT !.element = TRUE]
              [] statement = "setupEventListeners" -> setupEventListeners(inst)
              [] statement = "syncInputs" -> syncInputs(inst)
    IN  [after EXCEPT !.steps = Append(@, statement)]

RECURSIVE Statements(_, _, _)
Statements(inst, body, i) ==
    IF i > Len(body) THEN inst
    ELSE Statements(Statement(inst, body[i]), body, i + 1)

\* the listeners teardownFns leaves attached when none of them is called
removeListenersNone(listeners, teardownFns) == listeners

\* this.teardownFns.forEach((remove) => remove()): each callback removes the
\* handler it was made for
removeListeners(listeners, teardownFns) ==
    {l \in listeners : \A i \in 1..Len(teardownFns) : teardownFns[i] # l.id}

\* the handlers of the element for an event, in the order they were attached
RECURSIVE handlersInOrder(_)
handlersInOrder(handlers) ==
    IF handlers = {} THEN <<>>
    ELSE LET first == CHOOSE h \in handlers : \A g \in handlers : h.id <= g.id
         IN  <<first>> \o handlersInOrder(handlers \ {first})

\* the framework assigns an input of the instance
SetInput(m, v) ==
    /\ instance.loaded
    /\ instance.phase # "destroyed"
    /\ m \in DOMAIN instance.props
    /\ instance.props[m] # v
    /\ instance' = [instance EXCEPT !.props[m] = v, !.last = "input"]
    /\ UNCHANGED <<manifestFile, lib, lit, root, dirs, pc, input, components, idx,
                   generatedFiles, result, oplog, prev, runs, register, procs>>

\* ngOnChanges(): if (!this.element) return; this.syncInputs();
ngOnChanges ==
    /\ instance.loaded
    /\ instance.phase # "destroyed"
    /\ "ngOnChanges" \in instance.file.methods
    /\ instance' =
         [(IF ~instance.element THEN instance ELSE syncInputs(instance))
            EXCEPT !.last = "ngOnChanges"]
    /\ UNCHANGED <<manifestFile, lib, lit, root, dirs, pc, input, components, idx,
                   generatedFiles, result, oplog, prev, runs, register, procs>>

\* ngAfterViewInit(): the statements of the emitted body, in order
ngAfterViewInit ==
    /\ instance.loaded
    /\ instance.phase = "constructed"
    /\ instance' =
         [Statements(instance, instance.file.afterViewInit, 1)
            EXCEPT !.phase = "viewInit", !.last = "ngAfterViewInit"]
    /\ UNCHANGED <<manifestFile, lib, lit, root, dirs, pc, input, components, idx,
                   generatedFiles, result, oplog, prev, runs, register, procs>>

\* the framework destroys the instance; ngOnDestroy() runs when the class
\* has it: the removal callbacks are called and the list is emptied
ngOnDestroy ==
    /\ instance.loaded
    /\ instance.phase = "viewInit"
    /\ instance' =
         IF "ngOnDestroy" \in instance.file.methods
         THEN [instance EXCEPT
                 !.listeners = removeListeners(@, instance.teardownFns),
                 !.teardownFns = <<>>,
                 !.phase = "destroyed",
                 !.last = "ngOnDestroy"]
         ELSE [instance EXCEPT !.phase = "destroyed", !.last = "ngOnDestroy"]
    /\ UNCHANGED <<manifestFile, lib, lit, root, dirs, pc, input, components, idx,
                   generatedFiles, result, oplog, prev, runs, register, procs>>

\* element.dispatchEvent(new CustomEvent(name)): every handler attached for
\* the name runs, and emits on its emitter inside ngZone.run
DispatchEvent(name) ==
    /\ instance.loaded
    /\ Len(instance.dispatched) < MaxDispatch
    /\ LET handlers == handlersInOrder({l \in instance.listeners : l.eventName = name})
           emissions == [i \in 1..Len(handlers) |->
                            [emitter |-> handlers[i].emits, inside |-> handlers[i].zone]]
       IN  instance' =
             [instance EXCEPT
                !.dispatched = Append(@, [name |-> name, phase |-> instance.phase,
                                          emissions |-> emissions])]
    /\ UNCHANGED <<manifestFile, lib, lit, root, dirs, pc, input, components, idx,
                   generatedFiles, result, oplog, prev, runs, register, procs>>

InitWrapper ==
    /\ manifestFile = mA
    /\ lib = EmptyDir
    /\ lit = EmptyDir
    /\ dirs = {}
    /\ root = EmptyDir
    /\ pc = "idle"
    /\ input = NoInput
    /\ components = <<>>
    /\ idx = 1
    /\ generatedFiles = {}
    /\ result = NoResult
    /\ oplog = <<>>
    /\ runs = 0
    /\ prev = [valid |-> FALSE]
    /\ register = NotLoaded
    /\ \E component \in WrapperComponents :
          \/ instance = construct(component, inlineComponentContent(component, TRUE))
          \/ instance = construct(component, generateComponentFileContent(component, FALSE))
    /\ procs = NotLoaded

NextWrapper ==
    \/ \E m \in {sLabel, sData}, v \in InputValues : SetInput(m, v)
    \/ ngOnChanges
    \/ ngAfterViewInit
    \/ ngOnDestroy
    \/ \E name \in NativeEvents : DispatchEvent(name)

SpecWrapper == InitWrapper /\ [][NextWrapper]_vars

(***************************************************************************)
(* Properties of the wrapper instance (SpecWrapper)                        *)
(***************************************************************************)
HasMembers == Len(instance.component.members) > 0
HasEvents == Len(instance.component.events) > 0

MemberNames ==
    {instance.component.members[i].name : i \in 1..Len(instance.component.members)}

\* C23: ngAfterViewInit captures the element, then wires the listeners if
\* the component has events, then pushes the values if it has members; an
\* ngOnChanges before the element is captured leaves the element as it was;
\* after ngAfterViewInit and after every later ngOnChanges each member
\* property of the element has the wrapper's current value.
C23_InputsSynchronized ==
    /\ instance.phase = "constructed" =>
          /\ ~instance.element
          /\ \A m \in MemberNames : instance.elementProps[m] = sInitial
          /\ instance.listeners = {}
          /\ instance.steps = <<>>
    /\ instance.phase # "constructed" =>
          /\ instance.element
          /\ instance.steps =
                <<"captureElement">>
                \o (IF HasEvents THEN <<"setupEventListeners">> ELSE <<>>)
                \o (IF HasMembers THEN <<"syncInputs">> ELSE <<>>)
    /\ (instance.phase = "viewInit" /\ instance.last \in {"ngAfterViewInit", "ngOnChanges"}) =>
          /\ DOMAIN instance.elementProps = MemberNames
          /\ \A m \in MemberNames : instance.elementProps[m] = instance.props[m]

\* a wrapper with two members and events whose ngOnChanges ran after
\* ngAfterViewInit: the element has the value the label input was assigned,
\* and the undefined of the input that was never assigned
C23_Witness ==
    /\ HasEvents
    /\ MemberNames = {sLabel, sData}
    /\ instance.phase = "viewInit"
    /\ instance.last = "ngOnChanges"
    /\ instance.props[sLabel] = "v2"
    /\ instance.elementProps[sLabel] = "v2"
    /\ instance.elementProps[sData] = sUndefined

\* the emitter the component declares for an event name
EmitterOf(name) ==
    {instance.component.events[i].outputName :
        i \in {j \in 1..Len(instance.component.events) :
                  instance.component.events[j].eventName = name}}

\* C24: a native event dispatched on the element between ngAfterViewInit and
\* ngOnDestroy is emitted exactly once, on the emitter of that event, inside
\* ngZone.run; one removal callback is recorded per attached listener; after
\* ngOnDestroy no listener of the wrapper is attached, the list of removal
\* callbacks is empty, and a native event emits nothing.
C24_EventsForwardedUntilTeardown ==
    HasEvents =>
        /\ \A k \in 1..Len(instance.dispatched) :
              LET d == instance.dispatched[k]
              IN  IF d.phase = "viewInit" /\ EmitterOf(d.name) # {}
                  THEN /\ Len(d.emissions) = 1
                       /\ d.emissions[1].emitter \in EmitterOf(d.name)
                       /\ d.emissions[1].inside = "ngZone.run"
                  ELSE d.emissions = <<>>
        /\ instance.phase = "viewInit" =>
              /\ Cardinality(instance.listeners) = Len(instance.component.events)
              /\ Len(instance.teardownFns) = Cardinality(instance.listeners)
              /\ \A i \in 1..Len(instance.component.events) :
                    \E l \in instance.listeners :
                        l.eventName = instance.component.events[i].eventName
        /\ instance.phase = "destroyed" =>
              /\ instance.listeners = {}
              /\ instance.teardownFns = <<>>

\* a wrapper with two events was destroyed: an event dispatched before the
\* teardown was emitted, the same event dispatched after it was not
C24_Witness ==
    /\ Len(instance.component.events) = 2
    /\ instance.phase = "destroyed"
    /\ Len(instance.dispatched) = 2
    /\ instance.dispatched[1].name = sItemDeleted
    /\ instance.dispatched[1].phase = "viewInit"
    /\ Len(instance.dispatched[1].emissions) = 1
    /\ instance.dispatched[2].name = sItemDeleted
    /\ instance.dispatched[2].phase = "destroyed"
    /\ instance.dispatched[2].emissions = <<>>

(***************************************************************************)
(* Calls in which mkdirSync or the writeFileSync of a component file       *)
(* throws (SpecFail).  A write that throws leaves the file as it was or    *)
(* leaves a truncated file.                                                *)
(***************************************************************************)
FsError == "FsError"
Truncated == [truncated |-> TRUE]
FailedWriteLeaves == {"untouched", "truncated"}

FailOptions ==
    {Options(JStr(sManifestPath), pWc, a, TRUE) : a \in BOOLEAN}

\* mkdirSync(wrappersLibDir) throws, or in the augmented output
\* mkdirSync(litDir): the error leaves the call
MkdirFails(o, dir) ==
    /\ pc = "idle"
    /\ runs < MaxRuns
    /\ ~MissingManifestPath(o)
    /\ dir \notin dirs
    /\ runs' = runs + 1
    /\ prev' = Snapshot
    /\ input' = [options |-> o, manifest |-> manifestFile]
    /\ generatedFiles' = {}
    /\ idx' = 1
    /\ components' = <<>>
    /\ result' = Thrown(FsError, <<>>)
    /\ IF dir = "lib"
       THEN /\ oplog' = <<[op |-> "failed", call |-> "mkdir", dir |-> "lib"]>>
            /\ UNCHANGED dirs
       ELSE /\ o.augmentAngularOutput
            /\ parseManifest(manifestFile, o.wrapperSelectorPrefix).ok
            /\ oplog' = <<[op |-> "mkdir", dir |-> "lib"],
                          [op |-> "read", file |-> "manifest"],
                          [op |-> "failed", call |-> "mkdir", dir |-> "lit"]>>
            /\ dirs' = dirs \cup {"lib"}
    /\ UNCHANGED <<manifestFile, lib, lit, root, pc>>
    /\ UNCHANGED runtime

\* an iteration of the write loop whose writeFileSync throws: the error
\* leaves the call, nothing after the loop runs
WriteComponentFails(leaves) ==
    /\ pc = "write"
    /\ WritesPending
    /\ LET component == components[idx]
           o == input.options
           dir == IF o.augmentAngularOutput THEN lit ELSE lib
           after == IF leaves = "truncated"
                    THEN WriteTo(dir, component.fileName, Truncated) ELSE dir
       IN  /\ generatedFiles' = generatedFiles \cup {component.fileName}
           /\ IF o.augmentAngularOutput
              THEN lit' = after /\ UNCHANGED lib
              ELSE lib' = after /\ UNCHANGED lit
           /\ oplog' = Append(oplog, [op |-> "failed", call |-> "write",
                                      dir |-> OutputDir(o), name |-> component.fileName])
    /\ result' = Thrown(FsError, <<>>)
    /\ pc' = "idle"
    /\ UNCHANGED <<manifestFile, root, dirs, input, components, idx, prev, runs>>
    /\ UNCHANGED runtime

NextFail ==
    \/ \E o \in FailOptions : Begin(o)
    \/ \E o \in FailOptions, dir \in {"lib", "lit"} : MkdirFails(o, dir)
    \/ WriteComponent
    \/ \E leaves \in FailedWriteLeaves : WriteComponentFails(leaves)
    \/ CleanupOldFiles
    \/ WriteHelpers

SpecFail == Init /\ [][NextFail]_vars

(***************************************************************************)
(* Properties of the failing calls (SpecFail)                              *)
(***************************************************************************)
\* what a call that meets no error leaves of a wrappers directory: the
\* component files written, the stale ones unlinked, the helpers written
CompleteRun(before, o, manifest) ==
    LET list == parseManifest(manifest, o.wrapperSelectorPrefix).components
        names == {list[i].fileName : i \in 1..Len(list)}
        last(name) == list[CHOOSE i \in 1..Len(list) :
                              /\ list[i].fileName = name
                              /\ \A j \in 1..Len(list) : list[j].fileName = name => j <= i]
        scaffold == ScaffoldFiles(o, before.root)
    IN  IF o.augmentAngularOutput
        THEN LET written == [n \in DOMAIN before.lit \cup names |->
                                IF n \in names
                                THEN generateComponentFileContent(last(n), o.standalone)
                                ELSE before.lit[n]]
                 kept == Unlink(written, Stale(ExistingAugmented(written), names))
             IN  [lib |-> before.lib,
                  lit |-> WriteTo(kept, sIndexTs, generateLitIndexContent(list)),
                  root |-> WriteTo(scaffold, "public-api.ts", generatePublicApiContent),
                  dirs |-> before.dirs \cup {"lib", "lit"}]
        ELSE LET written == [n \in DOMAIN before.lib \cup names |->
                                IF n \in names
                                THEN inlineComponentContent(last(n), o.standalone)
                                ELSE before.lib[n]]
             IN  [lib |-> Unlink(written,
                                 Stale(ExistingDefault(written, o.wrapperSelectorPrefix),
                                       names)),
                  lit |-> before.lit,
                  root |-> WriteTo(WriteTo(scaffold, "register-stencil-components.ts",
                                           registerContent),
                                   "public-api.ts", publicApiContent(list)),
                  dirs |-> before.dirs \cup {"lib"}]

Directory == [lib |-> lib, lit |-> lit, root |-> root, dirs |-> dirs]

FsFailed == CallEnded /\ result.status = "error" /\ result.error = FsError

\* the operations of the call after its first failed one
AfterFailure(log) ==
    {i \in 1..Len(log) : \E j \in 1..Len(log) : j < i /\ log[j].op = "failed"}

\* C25: when mkdirSync or the write of a component file throws, the call
\* ends with that error and does nothing more: it has unlinked no file, the
\* component files it wrote before are there, and a complete call from the
\* directory it leaves ends where a complete call from the directory it
\* found ends; a call that meets no error ends there.
C25_FailureLeavesRetryable ==
    /\ FsFailed =>
          /\ Deleted(oplog) = {}
          /\ AfterFailure(oplog) = {}
          /\ \A i \in 1..Len(oplog) :
                oplog[i].op = "write" =>
                    /\ oplog[i].name \in DOMAIN OutputFiles(input.options, lib, lit)
                    /\ OutputFiles(input.options, lib, lit)[oplog[i].name] # Truncated
          /\ parseManifest(input.manifest, input.options.wrapperSelectorPrefix).ok =>
                CompleteRun(Directory, input.options, input.manifest)
                    = CompleteRun(prev, input.options, input.manifest)
    /\ (CallEnded /\ result.status = "ok") =>
          Directory = CompleteRun(prev, input.options, input.manifest)

\* a call whose second write threw, leaving a truncated file, was followed
\* by a call with the same manifest and options that met no error
C25_Witness ==
    /\ SecondCall
    /\ result.status = "ok"
    /\ input = prev.input
    /\ prev.result.status = "error"
    /\ prev.result.error = FsError
    /\ Len(prev.oplog) > 4
    /\ \E n \in DOMAIN prev.lib : prev.lib[n] = Truncated
    /\ fStale \notin DOMAIN lib
    /\ fStale \in DOMAIN prev.lib

(***************************************************************************)
(* generateAngularWrappersFromCem (SpecFromCem): runCemAnalyze, then       *)
(* generateAngularWrappers with the options the function hands on.  The    *)
(* manifest file holds what the analyzer writes.                           *)
(***************************************************************************)
CemOptions ==
    [skip : BOOLEAN, wrapperSelectorPrefix : {pWc, pUi},
     augmentAngularOutput : BOOLEAN, standalone : BOOLEAN]

\* the object literal handed to generateAngularWrappers: augmentAngularOutput
\* and standalone are not among its properties, so the callee takes their
\* defaults.  The field caller is no property of the object: it keeps the
\* options of the caller for the properties below.
ForwardedOptions(o, manifestPath) ==
    [manifestPath |-> manifestPath,
     wrapperSelectorPrefix |-> o.wrapperSelectorPrefix,
     augmentAngularOutput |-> FALSE,
     standalone |-> TRUE,
     caller |-> o]

\* the options of a direct call that asks for what the caller asked for
DirectOptions(o, manifestPath) ==
    Options(manifestPath, o.wrapperSelectorPrefix, o.augmentAngularOutput, o.standalone)

\* runCemAnalyze returns undefined: if (!manifestPath) return undefined;
FromCemSkipped(o) ==
    /\ pc = "idle"
    /\ runs < MaxRuns
    /\ o.skip
    /\ runs' = runs + 1
    /\ prev' = Snapshot
    /\ input' = [options |-> o, manifest |-> manifestFile]
    /\ result' = [status |-> "undefined"]
    /\ oplog' = <<>>
    /\ components' = <<>>
    /\ generatedFiles' = {}
    /\ idx' = 1
    /\ UNCHANGED <<manifestFile, lib, lit, root, dirs, pc>>
    /\ UNCHANGED runtime

\* runCemAnalyze returns the path of the manifest, and the call goes on in
\* generateAngularWrappers
FromCem(o) ==
    /\ ~o.skip
    /\ Begin(ForwardedOptions(o, JStr(sManifestPath)))

InitFromCem ==
    /\ manifestFile \in {mEmpty, mA, mAB, mABC}
    /\ lib \in {EmptyDir, Populated}
    /\ lit = EmptyDir
    /\ dirs = IF lib = EmptyDir THEN {} ELSE {"lib"}
    /\ root = EmptyDir
    /\ pc = "idle"
    /\ input = NoInput
    /\ components = <<>>
    /\ idx = 1
    /\ generatedFiles = {}
    /\ result = NoResult
    /\ oplog = <<>>
    /\ runs = 0
    /\ prev = [valid |-> FALSE]
    /\ NothingLoaded

NextFromCem ==
    \/ \E o \in CemOptions : runs = 0 /\ FromCemSkipped(o)
    \/ \E o \in CemOptions : runs = 0 /\ FromCem(o)
    \/ WriteComponent
    \/ CleanupOldFiles
    \/ WriteHelpers

SpecFromCem == InitFromCem /\ [][NextFromCem]_vars

\* C26: generateAngularWrappersFromCem returns undefined and leaves the
\* wrappers directory as it is when the analysis is skipped; otherwise it
\* leaves what generateAngularWrappers leaves when called with the path of
\* the manifest and the caller's options, augmentAngularOutput and
\* standalone included.
C26_FromCemEquivalent ==
    CallEnded =>
        IF result.status = "undefined"
        THEN input.options.skip /\ Directory = [k \in DOMAIN Directory |-> prev[k]]
        ELSE /\ ~input.options.caller.skip
             /\ result.status = "ok"
             /\ Directory =
                  CompleteRun(prev, DirectOptions(input.options.caller,
                                                  input.options.manifestPath),
                              input.manifest)

(***************************************************************************)
(* Further properties of the emitted wrappers (SpecEmit) and of the        *)
(* manifest walk (SpecParse)                                               *)
(***************************************************************************)

\* C27: within one component, events with distinct names have distinct
\* output names, so no two emitter properties of the wrapper class share a
\* name.
C27_DistinctOutputNames ==
    Succeeded =>
        LET events == result.components[1].events
            lines == TheWrapper.eventLines
        IN  /\ \A i, j \in 1..Len(events) :
                  events[i].eventName # events[j].eventName
                      => events[i].outputName # events[j].outputName
            /\ \A i, j \in 1..Len(lines) :
                  (i # j /\ events[i].eventName # events[j].eventName)
                      => lines[i].outputName # lines[j].outputName

\* the wrapper files of the output directory of the call
WrapperFiles ==
    {name \in DOMAIN OutputFiles(input.options, lib, lit) :
        /\ endsWith(name, ComponentSuffix)
        /\ startsWith(name, input.options.wrapperSelectorPrefix)}

\* C28: the components a call returns have pairwise distinct file names and
\* pairwise distinct class names, and after a successful call the output
\* directory holds as many wrapper files as the call returned components.
C28_DistinctFilesAndClasses ==
    (CallEnded /\ result.status = "ok") =>
        /\ \A i, j \in 1..Len(result.components) :
              i # j => /\ result.components[i].fileName # result.components[j].fileName
                       /\ result.components[i].className # result.components[j].className
        /\ Cardinality(WrapperFiles) = Len(result.components)

\* the file names of the components the call returned
ReturnedFiles == {result.components[i].fileName : i \in 1..Len(result.components)}

\* the files of the output directory with the wrapper suffix
SuffixedFiles ==
    {name \in DOMAIN OutputFiles(input.options, lib, lit) : endsWith(name, ComponentSuffix)}

\* the output directory held no file before the first call
StartedEmpty == fNotes \notin DOMAIN lib

\* C29 (as stated): after each successful call on a directory that held
\* nothing but what earlier calls wrote, whatever manifest and selector
\* prefix those calls had, the '.component.ts' files of the output directory
\* are exactly the file names of the components of that call.
C29_ConvergesWhateverChanged ==
    (CallEnded /\ result.status = "ok" /\ StartedEmpty) => SuffixedFiles = ReturnedFiles

\* C29 (amended): after each successful call, whatever the manifests of the
\* earlier calls, the '.component.ts' files of the output directory that
\* start with the selector prefix of the call are exactly the file names of
\* its components; in the default output a file that does not start with
\* that prefix is left as the call found it, so a wrapper generated under
\* an earlier prefix survives.
C29_ConvergesWithinPrefix ==
    (CallEnded /\ result.status = "ok") =>
        /\ WrapperFiles = ReturnedFiles
        /\ ~input.options.augmentAngularOutput =>
              \A name \in DOMAIN prev.lib :
                  ~startsWith(name, input.options.wrapperSelectorPrefix)
                      => name \in DOMAIN lib /\ lib[name] = prev.lib[name]

\* a call with the prefix 'ui-' followed a call with the prefix 'wc-' on the
\* same manifest in the default output: the wrapper of each prefix is there
C29_Witness ==
    /\ SecondCall
    /\ result.status = "ok"
    /\ StartedEmpty
    /\ ~input.options.augmentAngularOutput
    /\ input.options.wrapperSelectorPrefix = pUi
    /\ prev.input.options.wrapperSelectorPrefix = pWc
    /\ ReturnedFiles = {FileOf(input.options, tA)}
    /\ FileOf(prev.input.options, tA) \in DOMAIN lib
    /\ FileOf(prev.input.options, tB) \in DOMAIN prev.lib
    /\ FileOf(prev.input.options, tB) \in DOMAIN lib

(***************************************************************************)
(* Two calls of generateAngularWrappers at once on one wrappers directory  *)
(* (SpecRace), in the default output with the default prefix.  Each call   *)
(* is a process of its own; the steps of the two interleave at single      *)
(* file operations: a write, the directory listing, an unlink.             *)
(***************************************************************************)
Callers == {1, 2}
RaceManifests == {mA, mAB}
RaceOptions == Options(JStr(sManifestPath), pWc, FALSE, TRUE)

Waiting ==
    [at |-> "start", manifest |-> JUndefined, components |-> <<>>, idx |-> 1,
     generatedFiles |-> {}, stale |-> {}, result |-> NoResult, order |-> 0]

Ended(p) == procs[p].at \in {"done", "failed"}

\* the calls that have ended
EndedCalls == {p \in Callers : Ended(p)}

\* the call up to its write loop: mkdirSync, the manifest read and parse,
\* package.json and tsconfig.json when absent
RaceBegin(p, manifest) ==
    /\ procs[p].at = "start"
    /\ LET parsed == parseManifest(manifest, RaceOptions.wrapperSelectorPrefix)
       IN  procs' = [procs EXCEPT ![p] = [@ EXCEPT !.at = "write",
                                                    !.manifest = manifest,
                                                    !.components = parsed.components]]
    /\ dirs' = dirs \cup {"lib"}
    /\ root' = ScaffoldFiles(RaceOptions, root)
    /\ UNCHANGED <<manifestFile, lib, lit, pc, input, components, idx, generatedFiles,
                   result, oplog, prev, runs, register, instance>>

\* one iteration of the write loop of a call
RaceWrite(p) ==
    /\ procs[p].at = "write"
    /\ procs[p].idx <= Len(procs[p].components)
    /\ LET component == procs[p].components[procs[p].idx]
       IN  /\ lib' = WriteTo(lib, component.fileName,
                             inlineComponentContent(component, RaceOptions.standalone))
           /\ procs' = [procs EXCEPT ![p] =
                          [@ EXCEPT !.idx = @ + 1,
                                    !.generatedFiles = @ \cup {component.fileName}]]
    /\ UNCHANGED <<manifestFile, lit, root, dirs, pc, input, components, idx,
                   generatedFiles, result, oplog, prev, runs, register, instance>>

\* readdirSync(wrappersLibDir).filter(...): the call keeps the names that
\* are in the directory now and that it did not generate
RaceList(p) ==
    /\ procs[p].at = "write"
    /\ procs[p].idx > Len(procs[p].components)
    /\ procs' = [procs EXCEPT ![p] =
                   [@ EXCEPT !.at = "unlink",
                             !.stale = Stale(ExistingDefault(lib, RaceOptions.wrapperSelectorPrefix),
                                             procs[p].generatedFiles)]]
    /\ UNCHANGED <<manifestFile, lib, lit, root, dirs, pc, input, components, idx,
                   generatedFiles, result, oplog, prev, runs, register, instance>>

\* one unlinkSync of the cleanup loop: it throws ENOENT when the file is no
\* longer there, and the error leaves the call
RaceUnlink(p, file) ==
    /\ procs[p].at = "unlink"
    /\ file \in procs[p].stale
    /\ IF file \in DOMAIN lib
       THEN /\ lib' = Unlink(lib, {file})
            /\ procs' = [procs EXCEPT ![p] = [@ EXCEPT !.stale = @ \ {file}]]
       ELSE /\ procs' = [procs EXCEPT ![p] =
                           [@ EXCEPT !.at = "failed",
                                     !.result = Thrown("ENOENT", <<>>),
                                     !.order = Cardinality(EndedCalls) + 1]]
            /\ UNCHANGED lib
    /\ UNCHANGED <<manifestFile, lit, root, dirs, pc, input, components, idx,
                   generatedFiles, result, oplog, prev, runs, register, instance>>

\* the registration helper and the public API, then the return
RaceHelpers(p) ==
    /\ procs[p].at = "unlink"
    /\ procs[p].stale = {}
    /\ root' = WriteTo(WriteTo(root, "register-stencil-components.ts", registerContent),
                       "public-api.ts", publicApiContent(procs[p].components))
    /\ procs' = [procs EXCEPT ![p] =
                   [@ EXCEPT !.at = "done",
                             !.result = [status |-> "ok",
                                         components |-> procs[p].components,
                                         manifestPath |-> RaceOptions.manifestPath],
                             !.order = Cardinality(EndedCalls) + 1]]
    /\ UNCHANGED <<manifestFile, lib, lit, dirs, pc, input, components, idx,
                   generatedFiles, result, oplog, prev, runs, register, instance>>

InitRace ==
    /\ manifestFile = mA
    /\ lib \in {EmptyDir, Populated}
    /\ lit = EmptyDir
    /\ dirs = IF lib = EmptyDir THEN {} ELSE {"lib"}
    /\ root = EmptyDir
    /\ pc = "idle"
    /\ input = NoInput
    /\ components = <<>>
    /\ idx = 1
    /\ generatedFiles = {}
    /\ result = NoResult
    /\ oplog = <<>>
    /\ runs = 0
    /\ prev = [valid |-> FALSE]
    /\ register = NotLoaded
    /\ instance = NotLoaded
    /\ procs = [p \in Callers |-> Waiting]

NextRace ==
    \/ \E p \in Callers, manifest \in RaceManifests : RaceBegin(p, manifest)
    \/ \E p \in Callers : RaceWrite(p)
    \/ \E p \in Callers : RaceList(p)
    \/ \E p \in Callers, file \in {fStale, FileOf(RaceOptions, tA), FileOf(RaceOptions, tB)} :
          RaceUnlink(p, file)
    \/ \E p \in Callers : RaceHelpers(p)

SpecRace == InitRace /\ [][NextRace]_vars

\* the wrapper files of the shared output directory
RaceWrapperFiles ==
    {name \in DOMAIN lib :
        /\ endsWith(name, ComponentSuffix)
        /\ startsWith(name, RaceOptions.wrapperSelectorPrefix)}

FilesOf(p) == {procs[p].components[i].fileName : i \in 1..Len(procs[p].components)}

\* C30: when two calls on one output directory interleave at single file
\* operations, both end without an error; if both had the same manifest the
\* directory ends with exactly the wrapper files of that manifest; and no
\* wrapper file of the call that ended last is missing.
C30_SafeWithoutLocks ==
    (\A p \in Callers : Ended(p)) =>
        /\ \A p \in Callers : procs[p].at = "done"
        /\ procs[1].manifest = procs[2].manifest => RaceWrapperFiles = FilesOf(1)
        /\ \A p \in Callers : procs[p].order = 2 => FilesOf(p) \subseteq DOMAIN lib

====
